---- MODULE Spec2Model ----
(***************************************************************************)
(* Lock-free single-producer / multiple-consumer ring buffer in shared     *)
(* memory (rb::ring_buffer, rb::ring_buffer_reader).                       *)
(*                                                                         *)
(* The shared region holds the header (version, data_size, data_offset,    *)
(* capacity, positions) and the slot array.  The position word packs two   *)
(* unsigned counters, first in the low half and last in the high half.     *)
(* A record is modelled as two halves that are written and copied one      *)
(* after the other, so that a copy overlapping a write can be torn.  The   *)
(* record pushed as the n-th one (counting from 0) carries n in both       *)
(* halves.                                                                 *)
(***************************************************************************)
EXTENDS Integers, Sequences, FiniteSets, TLC

\* ---------------------------------------------------------------- bounds

\* Width of the two unsigned counters of the position word (32 in the source).
CounterBits == 4

\* Pushes the writer performs in one behaviour.
MaxPush == 4

\* Number of pushes, and of reader method calls, in a behaviour with two
\* readers.
MaxPushTwo == 1

MaxCallsTwo == 4

\* At most this many pushes, and this many reader method calls, in a behaviour
\* of the fair specification.
MaxPushFair == 3

MaxCallsFair == 3

\* At most this many pushes, and this many reader method calls made while
\* the writer pushes, in a behaviour that ends with the reader read empty.
MaxPushDrain == 5

MaxCallsDrain == 3

\* At most this many calls of push and emplace together, and this many reader
\* method calls, in a behaviour with both.
MaxPushEmplace == 3

MaxCallsEmplace == 3

\* At most this many pushes into a buffer followed from its construction, of
\* capacity 1 .. 2 ^ MaxCapLogOne.
MaxPushOne == 3

MaxCapLogOne == 1

\* At most this many pushes in a behaviour with a range-for loop.
MaxPushIter == 3

\* Pushes in a behaviour with an iterator used outside a loop.
MaxPushFree == 2

\* Stores used on their own have 1 .. MaxStoreSize bytes, each 0 .. MaxByte.
MaxStoreSize == 2

MaxByte == 1

\* Capacities are 2^0 .. 2^MaxCapLog.
MaxCapLog == 2

\* Readers are constructed with underflow_fixup in 0 .. MaxFixup.
MaxFixup == 2

\* next(n) is called with n in 0 .. MaxNext.
MaxNext == 1

\* Pushes already performed when a behaviour of SpecWrap starts: WrapLead short of 2^CounterBits.
WrapLead == 2

\* ------------------------------------------------------------- constants

ring_buffer_version == 1

ring_buffer_cache_linesize == 64

\* sizeof(T) of the record type the writer and the readers are instantiated with (int).
ItemSize == 4

\* sizeof(TestItem): an int and a double.
OtherItemSize == 16

\* sizeof(ring_buffer_header): int + padding, three size_t, one atomic unsigned long.
HeaderSize == 4 + 4 + 8 + 8 + 8 + 8

\* sizeof(ring_buffer_data<T>): storage aligned to the cache line size.
SlotStride == ((ItemSize - 1) \div ring_buffer_cache_linesize + 1) * ring_buffer_cache_linesize

Modulus == 2 ^ CounterBits

Capacities == {2 ^ k : k \in 0 .. MaxCapLog}

Fixups == 0 .. MaxFixup

Readers == {1, 2}

Max(a, b) == IF a >= b THEN a ELSE b

Min(a, b) == IF a <= b THEN a ELSE b

\* Truncation of an integer to an unsigned counter.
Unsigned(x) == ((x % Modulus) + Modulus) % Modulus

\* ------------------------------------------------------ position encoding

\* A position word with its halves exchanged.
make_positions_swapped(f, l) == f * Modulus + l

\* position_t{f, s}.lpos: upos[0] is the low half, upos[1] the high half.
make_positions(f, l) == l * Modulus + f

first(pos) == pos % Modulus

\* The high half of a position word left in its place.
last_unshifted(pos) == pos - (pos % Modulus)

last(pos) == pos \div Modulus

\* ----------------------------------------------------------------- records

\* The record pushed as the n-th one.
Rec(n) == <<n, n>>

\* Content of a slot that was never written.
Unwritten == <<-1, -1>>

\* What a reader holds as the result of get() before any get() has returned.
NoValue == <<>>

\* The absent marker of try_get (an empty optional).
Absent == <<-2>>

\* Slot of logical position p: p & (capacity - 1), capacity a power of two.
SlotOf(p, mask) == p % (mask + 1)

\* -------------------------------------------------------------------- state

VARIABLES
    capacity_,   \* ring_buffer::capacity_
    header,      \* the ring_buffer_header at offset 0 of the region
    data_,       \* the slot array, slot index -> record halves
    writer,      \* the writer's position in push_helper and its locals
    pushed,      \* number of pushes completed (published) so far
    budget,      \* pushes the writer may still start
    quota,       \* reader method calls that may still start
    reader,      \* per reader: its fields, position in get() and history
                 \* (quiet: no push was published since its get() last returned)
    shm,         \* the host's namespace of shared memory objects, by name
    store,       \* ring_buffer_store objects used on their own, by handle
    rbw,         \* the ring_buffer object: its life cycle and its store's flag
    iter,        \* a range-for loop over a reader: its iterator and its place
    drain        \* code that reads a reader empty: its locals and its place

vars == <<capacity_, header, data_, writer, pushed, budget, quota, reader,
          shm, store, rbw, iter, drain>>

\* What lies outside the buffer's region and its reader objects.
host == <<shm, store, rbw, iter, drain>>

\* The code that uses the readers.
users == <<iter, drain>>

shared == <<header, data_>>

\* ring_buffer_header constructor.
ring_buffer_header(v, ds, offset, cap) ==
    [version |-> v, data_size |-> ds, data_offset |-> offset, capacity |-> cap, positions |-> 0]

\* data_offset computed by the ring_buffer constructor.
DataOffset ==
    ((Max(HeaderSize, SlotStride) - 1) \div SlotStride + 1) * SlotStride

\* A reader object that has not been constructed.
NoReader ==
    [pc |-> "none", underflow_fixup_ |-> 0, read_pos_ |-> 0, capacity_mask_ |-> 0,
     pos |-> 0, item |-> Unwritten, ret |-> NoValue, opt |-> NoValue, sz |-> 0,
     tpos |-> 0, start |-> 0, lapped |-> FALSE, paced |-> TRUE, adjusted |-> FALSE,
     calls |-> "get", got |-> <<>>, quiet |-> FALSE, err |-> "none"]

WriterIdle == [pc |-> "idle", first |-> 0, last |-> 0, how |-> "push"]

\* ring_buffer constructor with a valid capacity: header initialised in place,
\* slots left as the fresh region holds them.
Constructed(cap) ==
    /\ capacity_ = cap
    /\ header = ring_buffer_header(ring_buffer_version, ItemSize, DataOffset, cap)
    /\ data_ = [i \in 0 .. cap - 1 |-> Unwritten]
    /\ writer = WriterIdle
    /\ pushed = 0

\* Reader method calls a behaviour may still start: any number, or left many.
AnyCalls == [limited |-> FALSE, left |-> 0]

\* Names of shared memory objects: those the host accepts, and one it refuses.
ValidNames == {"ring_buffer_test", "ring_buffer_store_test"}

InvalidNames == {"///"}

\* The name the ring buffer is created under.
RbName == "ring_buffer_test"

\* No object is registered under a name.
NoObject == [size |-> -1, bytes |-> [i \in {} |-> 0]]

\* An object of the given size as creation and truncate leave it: zero
\* filled.  bytes holds the bytes stored through a mapping of a
\* ring_buffer_store so far; the typed contents of the ring buffer's own
\* region are header and data_.
FreshObject(size) == [size |-> size, bytes |-> [i \in {} |-> 0]]

Registered(name) == shm[name] # NoObject

\* The byte at offset i of object o.
ByteAt(o, i) == IF i \in DOMAIN o.bytes THEN o.bytes[i] ELSE 0

\* store_size computed by the ring_buffer constructor.
StoreSize(cap) == cap * SlotStride + DataOffset

StoreHandles == {1, 2}

\* A ring_buffer_store that has not been constructed.
NoStore ==
    [state |-> "none", name |-> "", size |-> 0, mode |-> "none",
     remove_on_close_ |-> FALSE, err |-> "none"]

\* A ring_buffer that has not been constructed.
NoRingBuffer ==
    [state |-> "none", name |-> "", requested |-> 0, remove_on_close |-> FALSE,
     remove_on_close_ |-> FALSE, err |-> "none"]

\* No range-for loop is running.
NoIter ==
    [pc |-> "none", reader_ |-> 0, value_ |-> NoValue, loop |-> FALSE,
     lhs |-> 0, rhs |-> 0, callee |-> 0, eq |-> FALSE,
     yielded |-> <<>>, calm |-> FALSE]

\* No code is reading a reader empty.  from, over: read_pos_ and whether
\* first had passed it when the code began; cur_data, cur_size: what the
\* first get() and the size() after it returned; seq: what the get() calls
\* of the loop returned; end_size: what the last size() returned.
NoDrain ==
    [pc |-> "none", from |-> 0, over |-> FALSE, cur_data |-> NoValue, cur_size |-> 0,
     seq |-> <<>>, end_size |-> 0]

\* The host once the ring_buffer constructor has succeeded for RbName (without
\* remove_on_close): the name is registered with store_size bytes.
Hosted ==
    /\ shm = [n \in ValidNames |-> IF n = RbName THEN FreshObject(StoreSize(capacity_))
                                                ELSE NoObject]
    /\ store = [h \in StoreHandles |-> NoStore]
    /\ rbw = [NoRingBuffer EXCEPT !.state = "live", !.name = RbName,
                                  !.requested = capacity_]
    /\ iter = NoIter
    /\ drain = NoDrain

Init ==
    /\ \E cap \in Capacities : Constructed(cap)
    /\ Hosted
    /\ budget = MaxPush
    /\ quota = AnyCalls
    /\ reader = [r \in Readers |-> NoReader]

\* ------------------------------------------------------------------ writer

\* A writer that never advances first.
NewPositionsFirstKept(f, l, cap) == ((l + 1) % Modulus) * Modulus + f

\* A writer that keeps capacity records valid instead of capacity - 1.
NewPositionsFull(f, l, cap) ==
    LET l1 == (l + 1) % Modulus
    IN  l1 * Modulus + (IF f + cap < l1 THEN l1 - cap ELSE f)

\* push_helper, "compute new positions": ++last wraps as an unsigned; the test
\* first + capacity_ - 1 < last is evaluated in size_t (capacity_ is a size_t),
\* so its left side does not wrap; the assignment to first truncates.
NewPositions(f, l, cap) ==
    LET l1 == Unsigned(l + 1)
        f1 == IF f + cap - 1 < l1 THEN Unsigned(l1 - cap + 1) ELSE f
    IN  make_positions(f1, l1)

\* The position word and the slots after pushes k .. n - 1 into a buffer of
\* capacity cap that holds s, no reader taking part: push_helper, repeated.
RECURSIVE PushesFrom(_, _, _, _)
PushesFrom(s, cap, k, n) ==
    IF k = n
    THEN s
    ELSE PushesFrom([positions |-> NewPositions(first(s.positions), last(s.positions), cap),
                     data |-> [s.data EXCEPT ![SlotOf(last(s.positions), cap - 1)] = Rec(k)]],
                    cap, k + 1, n)

AfterPushes(cap, n) ==
    PushesFrom([positions |-> 0, data |-> [i \in 0 .. cap - 1 |-> Unwritten]], cap, 0, n)

\* A buffer whose writer has already pushed 2^CounterBits - WrapLead records:
\* the counters are about to wrap, and wrap within the next WrapLead pushes.
InitWrap ==
    /\ \E cap \in Capacities :
          LET s == AfterPushes(cap, Modulus - WrapLead) IN
          /\ capacity_ = cap
          /\ header = [ring_buffer_header(ring_buffer_version, ItemSize, DataOffset, cap)
                           EXCEPT !.positions = s.positions]
          /\ data_ = s.data
    /\ writer = WriterIdle
    /\ pushed = Modulus - WrapLead
    /\ Hosted
    /\ budget = 2 * WrapLead
    /\ quota = AnyCalls
    /\ reader = [r \in Readers |-> NoReader]

\* ring_buffer::size(): unsigned subtraction of the two halves.
ring_buffer_size(pos) == Unsigned(last(pos) - first(pos))

\* ring_buffer::empty(): size() == 0.
ring_buffer_empty(pos) == ring_buffer_size(pos) = 0

\* Index of the oldest record still valid once n records were published.
TrueFirst(n) == Max(0, n - capacity_ + 1)

\* History bookkeeping of a reader once n pushes are published: the reader is
\* lapped when its logical index is below the oldest valid index, and keeps
\* pace as long as at most one published record lies at or after its cursor;
\* the record of returned values is kept only for a reader that was never
\* lapped and calls get() and next() alternately.
Tracked(rd, n) ==
    LET lp == rd.lapped \/ (rd.pc # "none" /\ rd.tpos < TrueFirst(n))
    IN  [rd EXCEPT !.lapped = lp,
                   !.paced = @ /\ (rd.pc = "none" \/ n - rd.tpos <= 1),
                   !.got = IF lp \/ rd.calls = "free" THEN <<>> ELSE @]

\* TestItem(int a, double b): a record built from its two fields.
TestItem(a, b) == <<a, b>>

\* The arguments the n-th call of emplace is given: the fields of record n.
Args(n) == <<Rec(n)[1], Rec(n)[2]>>

\* An init of emplace that passes on its first argument only.
PlacedFirstOnly(how, n) ==
    IF how = "push" THEN TestItem(Args(n)[1], Args(n)[2]) ELSE TestItem(Args(n)[1], 0)

\* What init places in the slot in the n-th call.  push(T{args...}) is given
\* the record built by its caller and copies it, new (where) T(val);
\* emplace(args...) builds it in the slot, new (where) T{args...}.
Placed(how, n) ==
    LET val == TestItem(Args(n)[1], Args(n)[2])
    IN  IF how = "push" THEN <<val[1], val[2]>> ELSE TestItem(Args(n)[1], Args(n)[2])

\* A push that stores the position word before it writes the record.
PushBeginPublishing ==
    /\ writer.pc = "idle"
    /\ budget > 0
    /\ writer' = [pc |-> "init0",
                  first |-> first(header.positions),
                  last |-> last(header.positions),
                  how |-> "push"]
    /\ header' = [header EXCEPT
                     !.positions = NewPositions(first(header.positions),
                                                last(header.positions), capacity_)]
    /\ budget' = budget - 1
    /\ UNCHANGED <<capacity_, data_, pushed, quota, reader, host>>

\* push enters push_helper: load the position word (relaxed).
PushBegin ==
    /\ writer.pc = "idle"
    /\ budget > 0
    /\ writer' = [pc |-> "init0",
                  first |-> first(header.positions),
                  last |-> last(header.positions),
                  how |-> "push"]
    /\ budget' = budget - 1
    /\ UNCHANGED <<capacity_, header, data_, pushed, quota, reader, host>>

\* emplace enters push_helper, with its own init.
EmplaceBegin ==
    /\ writer.pc = "idle"
    /\ budget > 0
    /\ writer' = [pc |-> "init0",
                  first |-> first(header.positions),
                  last |-> last(header.positions),
                  how |-> "emplace"]
    /\ budget' = budget - 1
    /\ UNCHANGED <<capacity_, header, data_, pushed, quota, reader, host>>

\* An init that writes into the slot of first.
PushInitAtFirst(h) ==
    /\ writer.pc = (IF h = 1 THEN "init0" ELSE "init1")
    /\ data_' = [data_ EXCEPT ![SlotOf(writer.first, capacity_ - 1)][h] =
                                 Placed(writer.how, pushed)[h]]
    /\ writer' = [writer EXCEPT !.pc = IF h = 1 THEN "init1" ELSE "store"]
    /\ UNCHANGED <<capacity_, header, pushed, budget, quota, reader, host>>

\* init(&data_[last & (capacity_ - 1)]): the record is written half by half.
PushInit(h) ==
    /\ writer.pc = (IF h = 1 THEN "init0" ELSE "init1")
    /\ data_' = [data_ EXCEPT ![SlotOf(writer.last, capacity_ - 1)][h] =
                                 Placed(writer.how, pushed)[h]]
    /\ writer' = [writer EXCEPT !.pc = IF h = 1 THEN "init1" ELSE "store"]
    /\ UNCHANGED <<capacity_, header, pushed, budget, quota, reader, host>>

\* A push that writes its record over again instead of publishing it.
PushStoreRetry ==
    /\ writer.pc = "store"
    /\ writer' = [writer EXCEPT !.pc = "init0"]
    /\ UNCHANGED <<capacity_, header, data_, pushed, budget, quota, reader, host>>

\* A push that also records the new value of last in the capacity field.
PushStoreCounting ==
    /\ writer.pc = "store"
    /\ header' = [header EXCEPT
                     !.positions = NewPositions(writer.first, writer.last, capacity_),
                     !.capacity = last(NewPositions(writer.first, writer.last, capacity_))]
    /\ writer' = [writer EXCEPT !.pc = "idle"]
    /\ pushed' = pushed + 1
    /\ reader' = [r \in Readers |->
                      [Tracked(reader[r], pushed + 1) EXCEPT !.quiet = FALSE]]
    /\ UNCHANGED <<capacity_, data_, budget, quota, host>>

\* positions.store(make_positions(first, last), release).
PushStore ==
    /\ writer.pc = "store"
    /\ header' = [header EXCEPT
                     !.positions = NewPositions(writer.first, writer.last, capacity_)]
    /\ writer' = [writer EXCEPT !.pc = "idle"]
    /\ pushed' = pushed + 1
    /\ reader' = [r \in Readers |->
                      [Tracked(reader[r], pushed + 1) EXCEPT !.quiet = FALSE]]
    /\ UNCHANGED <<capacity_, data_, budget, quota, host>>

WriterStep == PushBegin \/ PushInit(1) \/ PushInit(2) \/ PushStore

\* ------------------------------------------------------------------ reader

\* Total number of pushes a behaviour publishes.
Horizon == pushed + budget + (IF writer.pc = "idle" THEN 0 ELSE 1)

\* Logical index (count of pushes) of the position first_of(w), for the word w
\* currently stored: last_of(w) is the count of pushes modulo 2^CounterBits.
TrueIndexOfFirst(w) == pushed - Unsigned(last(w) - first(w))

\* An adjustment that moves a lapped reader to first, without underflow_fixup_.
adjust_read_pos_to_first(rd, w) ==
    IF first(w) > rd.read_pos_
    THEN [rd EXCEPT !.read_pos_ = first(w),
                    !.tpos = TrueIndexOfFirst(w),
                    !.adjusted = TRUE]
    ELSE rd

\* adjust_read_pos(pos).
adjust_read_pos(rd, w) ==
    IF first(w) > rd.read_pos_
    THEN [rd EXCEPT !.read_pos_ = Unsigned(first(w) + rd.underflow_fixup_),
                    !.tpos = TrueIndexOfFirst(w) + rd.underflow_fixup_,
                    !.adjusted = TRUE]
    ELSE rd

\* positions.load(acquire) followed by adjust_read_pos(pos).
LoadAndAdjust(rd) ==
    adjust_read_pos([rd EXCEPT !.pos = header.positions], header.positions)

ReaderFrame == UNCHANGED <<capacity_, header, data_, writer, pushed, budget, host>>

\* A reader method is entered / a reader method goes on.
Enter ==
    /\ quota.limited => quota.left > 0
    /\ quota' = [quota EXCEPT !.left = IF quota.limited THEN @ - 1 ELSE @]

Inside == UNCHANGED quota

\* A method returns: its locals (the loaded position word, the copied item) go
\* out of scope.
Return(rd) == [rd EXCEPT !.pc = "idle", !.pos = 0, !.item = Unwritten]

\* A reader constructor that checks neither the version nor the record size.
ReaderConstructUnchecked(r, fixup) ==
    /\ reader[r].pc = "none"
    /\ reader' = [reader EXCEPT ![r] =
          Tracked([NoReader EXCEPT
                   !.pc = "idle",
                   !.underflow_fixup_ = fixup,
                   !.capacity_mask_ = header.capacity - 1,
                   !.read_pos_ = first(header.positions),
                   !.tpos = TrueIndexOfFirst(header.positions),
                   !.start = TrueIndexOfFirst(header.positions)], pushed)]
    /\ ReaderFrame
    /\ Enter

\* A reader constructor that leaves read_pos_ at 0, as its member initialiser
\* sets it.
ReaderConstructAtZero(r, fixup) ==
    /\ reader[r].pc = "none"
    /\ reader' = [reader EXCEPT ![r] =
          Tracked([NoReader EXCEPT
                   !.pc = "idle",
                   !.underflow_fixup_ = fixup,
                   !.capacity_mask_ = header.capacity - 1], pushed)]
    /\ ReaderFrame
    /\ Enter

\* ring_buffer_reader constructor: open the store, check version and record
\* size (a mismatch throws and leaves no reader), read_pos_ = first(positions).
ReaderConstruct(r, fixup) ==
    /\ reader[r].pc = "none"
    /\ reader' = [reader EXCEPT ![r] =
          IF header.version # ring_buffer_version \/ header.data_size # ItemSize
          THEN [NoReader EXCEPT !.err = "runtime_error"]
          ELSE Tracked([NoReader EXCEPT
                   !.pc = "idle",
                   !.underflow_fixup_ = fixup,
                   !.capacity_mask_ = header.capacity - 1,
                   !.read_pos_ = first(header.positions),
                   !.tpos = TrueIndexOfFirst(header.positions),
                   !.start = TrueIndexOfFirst(header.positions)], pushed)]
    /\ ReaderFrame
    /\ Enter

\* A reader size() that counts the valid records of the buffer, wherever the
\* reader stands.
SizeValueOfBuffer(rd) == Unsigned(last(header.positions) - first(header.positions))

\* What size() returns for the reader rd with the position word now stored:
\* last > read_pos_ ? last - read_pos_ : 0, after the adjustment.
\* The distance from the cursor to last, taken before the cursor is adjusted.
SizeValueUnadjusted(rd) ==
    LET l == last(header.positions)
    IN  IF l > rd.read_pos_ THEN Unsigned(l - rd.read_pos_) ELSE 0

SizeValue(rd) ==
    LET a == LoadAndAdjust(rd)
        l == last(a.pos)
    IN  IF l > a.read_pos_ THEN Unsigned(l - a.read_pos_) ELSE 0

\* ring_buffer_reader::size() (and empty(), which is size() == 0).
ReaderSize(r) ==
    /\ reader[r].pc = "idle"
    /\ reader' = [reader EXCEPT ![r] =
           Tracked(Return([LoadAndAdjust(reader[r]) EXCEPT !.sz = SizeValue(reader[r])]),
                   pushed)]
    /\ ReaderFrame
    /\ Enter

\* A next() on a cursor that all readers share.
ReaderNextShared(r, n) ==
    /\ reader[r].pc = "idle"
    /\ reader[r].tpos + n <= Horizon + 1
    /\ reader' = [q \in Readers |->
           IF reader[q].pc = "none"
           THEN reader[q]
           ELSE [reader[q] EXCEPT !.read_pos_ = (@ + n) % Modulus, !.tpos = @ + n]]
    /\ UNCHANGED <<capacity_, header, data_, writer, pushed, budget, quota, host>>

\* A next() that always moves, by one position when called with 0.
ReaderNextAtLeastOne(r, n) ==
    /\ reader[r].pc = "idle"
    /\ reader[r].tpos + Max(n, 1) <= Horizon + 1
    /\ reader' = [reader EXCEPT ![r] =
           Tracked([@ EXCEPT !.read_pos_ = Unsigned(@ + Max(n, 1)),
                             !.tpos = @ + Max(n, 1),
                             !.calls = "free"],
                   pushed)]
    /\ ReaderFrame
    /\ Enter

\* A next() that stops at last instead of moving past it.
ReaderNextClamped(r, n) ==
    /\ reader[r].pc = "idle"
    /\ reader[r].tpos + n <= Horizon + 1
    /\ LET m == Min(n, SizeValue(reader[r]))
       IN  reader' = [reader EXCEPT ![r] =
               Tracked([@ EXCEPT !.read_pos_ = Unsigned(@ + m),
                                 !.tpos = @ + m,
                                 !.calls = "free"],
                       pushed)]
    /\ ReaderFrame
    /\ Enter

\* ring_buffer_reader::next(n): read_pos_ += n.
ReaderNext(r, n) ==
    /\ reader[r].pc = "idle"
    /\ reader[r].tpos + n <= Horizon + 1
    /\ reader' = [reader EXCEPT ![r] =
           Tracked([@ EXCEPT !.read_pos_ = Unsigned(@ + n),
                             !.tpos = @ + n,
                             !.calls = IF reader[r].calls = "next" /\ n = 1
                                       THEN "get" ELSE "free"],
                   pushed)]
    /\ ReaderFrame
    /\ Enter

\* A get() whose spin_wait never sees a record published.
AfterWaitStuck(rd) == [rd EXCEPT !.pc = "spin"]

\* A get() that never waits for a record to be published.
AfterWaitNever(rd) == [rd EXCEPT !.pc = "copy0"]

\* Where get() goes after a load in its waiting part: spin_wait loops while
\* read_pos_ >= last(pos).
AfterWait(rd) ==
    [rd EXCEPT !.pc = IF rd.read_pos_ >= last(rd.pos) THEN "spin" ELSE "copy0"]

\* get(): the first load, adjust_read_pos and the first test of spin_wait.
GetBegin(r) ==
    /\ reader[r].pc = "idle"
    /\ reader' = [reader EXCEPT ![r] =
           Tracked(AfterWait(LoadAndAdjust(reader[r])), pushed)]
    /\ ReaderFrame
    /\ Enter

\* One turn of the loop of spin_wait.
GetSpin(r) ==
    /\ reader[r].pc = "spin"
    /\ reader' = [reader EXCEPT ![r] =
           Tracked(AfterWait(LoadAndAdjust(reader[r])), pushed)]
    /\ ReaderFrame
    /\ Inside

\* T item(data_[read_pos_ & capacity_mask_].item): the copy, half by half.
GetCopy(r, h) ==
    /\ reader[r].pc = (IF h = 1 THEN "copy0" ELSE "copy1")
    /\ reader' = [reader EXCEPT ![r] =
           [@ EXCEPT !.item[h] = data_[SlotOf(reader[r].read_pos_,
                                              reader[r].capacity_mask_)][h],
                     !.pc = IF h = 1 THEN "copy1" ELSE "recheck"]]
    /\ ReaderFrame
    /\ Inside

\* The body of for(;;) after the copy: reload, adjust; return the item if
\* read_pos_ was not changed, else copy again.
AfterRecheck(old, rd) ==
    IF old.read_pos_ = rd.read_pos_
    THEN Return([rd EXCEPT !.ret = rd.item,
                           !.calls = IF rd.calls = "get" THEN "next" ELSE "free",
                           !.got = Append(@, rd.item),
                           !.quiet = TRUE])
    ELSE [rd EXCEPT !.pc = "copy0"]

\* A get() that consumes: on return it moves first past the record returned.
GetRecheckConsuming(r) ==
    /\ reader[r].pc = "recheck"
    /\ reader' = [reader EXCEPT ![r] =
           Tracked(AfterRecheck(reader[r], LoadAndAdjust(reader[r])), pushed)]
    /\ header' = [header EXCEPT !.positions =
                     (@ \div Modulus) * Modulus + ((reader[r].read_pos_ + 1) % Modulus)]
    /\ UNCHANGED <<capacity_, data_, writer, pushed, budget, quota, host>>

GetRecheck(r) ==
    /\ reader[r].pc = "recheck"
    /\ reader' = [reader EXCEPT ![r] =
           Tracked(AfterRecheck(reader[r], LoadAndAdjust(reader[r])), pushed)]
    /\ ReaderFrame
    /\ Inside

\* A try_get() that copies whatever the slot of read_pos_ holds, whether a
\* record is available or not.
TryGetBeginBlind(r) ==
    /\ reader[r].pc \in {"idle", "tryagain"}
    /\ reader' = [reader EXCEPT ![r] =
           Tracked([LoadAndAdjust(reader[r]) EXCEPT !.pc = "trycopy0"], pushed)]
    /\ ReaderFrame
    /\ IF reader[r].pc = "idle" THEN Enter ELSE Inside

\* try_get(), as section 4.4 of the specification gives it (the class declares
\* it; the repository holds no body): the steps of get(), but with read_pos_ >=
\* last it returns the absent marker instead of waiting.
TryGetBegin(r) ==
    /\ reader[r].pc \in {"idle", "tryagain"}
    /\ LET rd == LoadAndAdjust(reader[r])
       IN  reader' = [reader EXCEPT ![r] =
               Tracked(IF rd.read_pos_ >= last(rd.pos)
                       THEN Return([rd EXCEPT !.opt = Absent])
                       ELSE [rd EXCEPT !.pc = "trycopy0"],
                       pushed)]
    /\ ReaderFrame
    /\ IF reader[r].pc = "idle" THEN Enter ELSE Inside

\* try_get(): the copy of the record, half by half.
TryGetCopy(r, h) ==
    /\ reader[r].pc = (IF h = 1 THEN "trycopy0" ELSE "trycopy1")
    /\ reader' = [reader EXCEPT ![r] =
           [@ EXCEPT !.item[h] = data_[SlotOf(reader[r].read_pos_,
                                              reader[r].capacity_mask_)][h],
                     !.pc = IF h = 1 THEN "trycopy1" ELSE "tryrecheck"]]
    /\ ReaderFrame
    /\ Inside

\* try_get(): reload and adjust after the copy; the copy is returned if
\* read_pos_ was not adjusted, else try_get starts again from its first step.
TryGetRecheck(r) ==
    /\ reader[r].pc = "tryrecheck"
    /\ LET rd == LoadAndAdjust(reader[r])
       IN  reader' = [reader EXCEPT ![r] =
               Tracked(IF reader[r].read_pos_ = rd.read_pos_
                       THEN Return([rd EXCEPT !.opt = rd.item])
                       ELSE [rd EXCEPT !.pc = "tryagain"],
                       pushed)]
    /\ ReaderFrame
    /\ Inside

ReaderStep(r) ==
    \/ \E fixup \in Fixups : ReaderConstruct(r, fixup)
    \/ ReaderSize(r)
    \/ \E n \in 0 .. MaxNext : ReaderNext(r, n)
    \/ GetBegin(r)
    \/ GetSpin(r)
    \/ GetCopy(r, 1)
    \/ GetCopy(r, 2)
    \/ GetRecheck(r)
    \/ TryGetBegin(r)
    \/ TryGetCopy(r, 1)
    \/ TryGetCopy(r, 2)
    \/ TryGetRecheck(r)

\* One writer and one reader.
Next == WriterStep \/ ReaderStep(1)

\* A writer that calls push and emplace in any order, and a reader that
\* calls get() and next().
InitEmplace ==
    /\ \E cap \in Capacities : Constructed(cap)
    /\ Hosted
    /\ budget = MaxPushEmplace
    /\ quota = [limited |-> TRUE, left |-> MaxCallsEmplace]
    /\ reader = [r \in Readers |-> NoReader]

NextEmplace ==
    \/ WriterStep
    \/ EmplaceBegin
    \/ \E fixup \in Fixups : ReaderConstruct(1, fixup)
    \/ ReaderNext(1, 1)
    \/ GetBegin(1)
    \/ GetSpin(1)
    \/ GetCopy(1, 1)
    \/ GetCopy(1, 2)
    \/ GetRecheck(1)

SpecEmplace == InitEmplace /\ [][NextEmplace]_vars

\* The position encoding by itself: any word in the header, any two counters
\* packed into it, and the halves of the word in the header unpacked.
InitWord ==
    /\ capacity_ = 2 ^ MaxCapLog
    /\ \E w \in 0 .. Modulus * Modulus - 1 :
          header = [ring_buffer_header(ring_buffer_version, ItemSize, DataOffset, capacity_)
                        EXCEPT !.positions = w]
    /\ data_ = [i \in 0 .. capacity_ - 1 |-> Unwritten]
    /\ writer = WriterIdle
    /\ pushed = 0
    /\ Hosted
    /\ budget = 0
    /\ quota = AnyCalls
    /\ reader = [r \in Readers |-> NoReader]

\* first = first(pos); last = last(pos), of the word loaded from the header.
UnpackWord ==
    /\ writer.pc # "unpacked"
    /\ writer' = [writer EXCEPT !.pc = "unpacked",
                                !.first = first(header.positions),
                                !.last = last(header.positions)]
    /\ UNCHANGED <<capacity_, header, data_, pushed, budget, quota, reader, host>>

\* positions.store(make_positions(f, l)).
PackWord(f, l) ==
    /\ header' = [header EXCEPT !.positions = make_positions(f, l)]
    /\ writer' = [writer EXCEPT !.pc = "packed", !.first = f, !.last = l]
    /\ UNCHANGED <<capacity_, data_, pushed, budget, quota, reader, host>>

NextWord ==
    \/ UnpackWord
    \/ \E f \in 0 .. Modulus - 1, l \in 0 .. Modulus - 1 : PackWord(f, l)

SpecWord == InitWord /\ [][NextWord]_vars

Spec == Init /\ [][Next]_vars

\* The same program, started shortly before the counters wrap.
SpecWrap == InitWrap /\ [][Next]_vars

\* One writer and two readers, over a shorter run of pushes.
InitTwo ==
    /\ \E cap \in Capacities : Constructed(cap)
    /\ Hosted
    /\ budget = MaxPushTwo
    /\ quota = [limited |-> TRUE, left |-> MaxCallsTwo]
    /\ reader = [r \in Readers |-> NoReader]

NextTwo == WriterStep \/ \E r \in Readers : ReaderStep(r)

SpecTwo == InitTwo /\ [][NextTwo]_vars

\* The writer pushes some finite number of records and stops; a get() of
\* reader 1 that has been entered keeps taking steps (the reader thread is
\* scheduled), nothing else is required to run.
InitFair ==
    /\ \E cap \in Capacities : Constructed(cap)
    /\ Hosted
    /\ budget \in 0 .. MaxPushFair
    /\ quota = [limited |-> TRUE, left |-> MaxCallsFair]
    /\ reader = [r \in Readers |-> NoReader]

GetGoesOn(r) == GetSpin(r) \/ GetCopy(r, 1) \/ GetCopy(r, 2) \/ GetRecheck(r)

SpecFair == InitFair /\ [][Next]_vars /\ WF_vars(GetGoesOn(1))

\* ------------------------------------------------- store and construction

\* Capacities a caller may ask for: the small ones, and those around the
\* largest unsigned (size_t is wider than unsigned, whose width is scaled as
\* CounterBits).
RequestedCapacities ==
    (0 .. 2 ^ MaxCapLog) \cup {Modulus \div 2, Modulus - 1, Modulus, Modulus + 1}

\* std::numeric_limits<unsigned>::max().
MaxUnsigned == Modulus - 1

\* a & b on non-negative integers.
RECURSIVE BitAnd(_, _)
BitAnd(a, b) ==
    IF a = 0 \/ b = 0
    THEN 0
    ELSE (a % 2) * (b % 2) + 2 * BitAnd(a \div 2, b \div 2)

\* Implementation versions a writer may have been built with, and sizeof(T) of
\* the record types a writer may be instantiated with (int, TestItem).
Versions == {ring_buffer_version, ring_buffer_version + 1}

ItemSizes == {ItemSize, OtherItemSize}

\* What sysconf reports for the L1 cache line and for the page.
CacheLineSizes == {ring_buffer_cache_linesize, 2 * ring_buffer_cache_linesize}

PageSizes == {SlotStride \div 2, 64 * SlotStride}

\* How the host answers a creation or an opening that the namespace allows:
\* all goes well, truncate fails, or mapping the region fails.
HostOutcomes == {"ok", "truncate", "map"}

\* Sizes in bytes of the stores created on their own, and the byte values
\* written through them.
StoreSizes == 1 .. MaxStoreSize

Bytes == 0 .. MaxByte

\* The flag the create constructor of ring_buffer_store hands to its
\* shm_object_holder: the holder is built from the name, the size and the mode
\* only, so its remove parameter keeps its default.
HolderRemove(remove_on_close) == FALSE

\* A creation that takes over an object already registered under the name.
CreateErrorTakingOver(name, outcome) ==
    IF name \in InvalidNames THEN "invalid_argument_error"
    ELSE IF outcome # "ok" THEN "other_error"
    ELSE "none"

\* The error of creating name with the given size (shared_memory_object
\* create_only, truncate, mapped_region), "none" when it succeeds.
CreateError(name, outcome) ==
    IF name \in InvalidNames THEN "invalid_argument_error"
    ELSE IF Registered(name) THEN "already_exists_error"
    ELSE IF outcome # "ok" THEN "other_error"
    ELSE "none"

\* The namespace after the attempt: a creation that fails in create_only
\* registers nothing; once create_only has succeeded the name is registered,
\* and stays so when truncate or the mapping throws (the holder's destructor
\* removes the name only if its remove_on_close_ is set).
ShmAfterCreate(name, size, remove_on_close, outcome) ==
    IF CreateError(name, outcome) \in {"invalid_argument_error", "already_exists_error"}
    THEN shm
    ELSE IF outcome = "truncate"
    THEN [shm EXCEPT ![name] = FreshObject(0)]
    ELSE IF outcome = "map" /\ HolderRemove(remove_on_close)
    THEN shm
    ELSE [shm EXCEPT ![name] = FreshObject(size)]

\* ~shm_object_holder on the namespace.
ShmAfterClose(name, remove_on_close_) ==
    IF remove_on_close_ THEN [shm EXCEPT ![name] = NoObject] ELSE shm

\* The error of opening name read-only and mapping it.
OpenError(name, outcome) ==
    IF ~Registered(name) THEN "not_found_error"
    ELSE IF outcome = "map" \/ shm[name].size = 0 THEN "other_error"
    ELSE "none"

\* What only the ring buffer and its readers hold.
ringside == <<capacity_, header, data_, writer, pushed, budget, quota, reader>>

\* ring_buffer_store(create, name, size, remove_on_close).
StoreCreate(h, name, size, remove_on_close, outcome) ==
    /\ store[h].state = "none"
    /\ LET e == CreateError(name, outcome)
       IN  store' = [store EXCEPT ![h] =
               IF e = "none"
               THEN [state |-> "open", name |-> name, size |-> size, mode |-> "read_write",
                     remove_on_close_ |-> HolderRemove(remove_on_close), err |-> "none"]
               ELSE [NoStore EXCEPT !.err = e]]
    /\ shm' = ShmAfterCreate(name, size, remove_on_close, outcome)
    /\ UNCHANGED <<ringside, rbw, users>>

\* An open whose size() is the mapping's length in whole pages of two bytes.
StoreOpenWholePages(h, name, outcome) ==
    /\ store[h].state = "none"
    /\ LET e == OpenError(name, outcome)
       IN  store' = [store EXCEPT ![h] =
               IF e = "none"
               THEN [state |-> "open", name |-> name,
                     size |-> 2 * ((shm[name].size + 1) \div 2),
                     mode |-> "read_only", remove_on_close_ |-> FALSE, err |-> "none"]
               ELSE [NoStore EXCEPT !.err = e]]
    /\ UNCHANGED <<ringside, shm, rbw, users>>

\* ring_buffer_store(open, name): size() is the size of the whole object.
StoreOpen(h, name, outcome) ==
    /\ store[h].state = "none"
    /\ LET e == OpenError(name, outcome)
       IN  store' = [store EXCEPT ![h] =
               IF e = "none"
               THEN [state |-> "open", name |-> name, size |-> shm[name].size,
                     mode |-> "read_only", remove_on_close_ |-> FALSE, err |-> "none"]
               ELSE [NoStore EXCEPT !.err = e]]
    /\ UNCHANGED <<ringside, shm, rbw, users>>

\* The byte at offset i of address(): the mappings are shared, so every store
\* of a name reads the bytes of the one object.
StoreRead(h, i) == ByteAt(shm[store[h].name], i)

\* A byte stored through the mapping of a read-write store.
StoreWrite(h, i, b) ==
    /\ store[h].state = "open"
    /\ store[h].mode = "read_write"
    /\ i < store[h].size
    /\ shm' = [shm EXCEPT ![store[h].name].bytes =
                  [k \in DOMAIN @ \cup {i} |-> IF k = i THEN b ELSE @[k]]]
    /\ UNCHANGED <<ringside, store, rbw, users>>

\* ~ring_buffer_store: the region is unmapped, then ~shm_object_holder.
StoreClose(h) ==
    /\ store[h].state = "open"
    /\ store' = [store EXCEPT ![h] = NoStore]
    /\ shm' = ShmAfterClose(store[h].name, store[h].remove_on_close_)
    /\ UNCHANGED <<ringside, rbw, users>>

\* Argument checks that take the largest int for the largest capacity.
ArgumentErrorSigned(cap) ==
    IF cap = 0 \/ cap > MaxUnsigned \div 2 THEN "invalid_argument"
    ELSE IF BitAnd(cap, cap - 1) # 0 THEN "invalid_argument"
    ELSE "none"

\* Argument checks made on the capacity narrowed to an unsigned.
ArgumentErrorNarrow(cap) ==
    IF cap % Modulus = 0 THEN "invalid_argument"
    ELSE IF BitAnd(cap % Modulus, (cap % Modulus) - 1) # 0 THEN "invalid_argument"
    ELSE "none"

\* The exception of the argument checks of the ring_buffer constructor.
ArgumentError(cap) ==
    IF cap = 0 \/ cap > MaxUnsigned THEN "invalid_argument"
    ELSE IF BitAnd(cap, cap - 1) # 0 THEN "invalid_argument"
    ELSE "none"

\* The exception of its checks of the host: the L1 line size and the page size.
SysconfError(line, page) ==
    IF line > ring_buffer_cache_linesize THEN "runtime_error"
    ELSE IF SlotStride > page THEN "runtime_error"
    ELSE "none"

\* A constructor that threw: no ring_buffer object; what was asked is kept.
Thrown(rb, e) == [rb EXCEPT !.state = "none", !.err = e]

\* ring_buffer<T>(name, capacity, remove_on_close): capacity_(capacity) and
\* the two checks of the capacity.
ConstructBegin(name, cap, remove_on_close) ==
    /\ rbw.state \in {"none", "destroyed"}
    /\ LET rb == [NoRingBuffer EXCEPT !.name = name, !.requested = cap,
                                      !.remove_on_close = remove_on_close]
       IN  rbw' = IF ArgumentError(cap) = "none"
                  THEN [rb EXCEPT !.state = "sysconf"]
                  ELSE Thrown(rb, ArgumentError(cap))
    /\ UNCHANGED <<ringside, shm, store, users>>

\* The constructor asks the host for its cache line size and its page size.
ConstructSysconf(line, page) ==
    /\ rbw.state = "sysconf"
    /\ rbw' = IF SysconfError(line, page) = "none"
              THEN [rbw EXCEPT !.state = "create"]
              ELSE Thrown(rbw, SysconfError(line, page))
    /\ UNCHANGED <<ringside, shm, store, users>>

\* The constructor creates its store (create_only, truncate, mapping) and
\* constructs the header in place: T of size ds, implementation version v.
ConstructStore(v, ds, outcome) ==
    /\ rbw.state = "create"
    /\ LET e == CreateError(rbw.name, outcome)
       IN  /\ rbw' = IF e = "none"
                     THEN [rbw EXCEPT !.state = "live",
                                      !.remove_on_close_ = HolderRemove(rbw.remove_on_close)]
                     ELSE Thrown(rbw, e)
           /\ shm' = ShmAfterCreate(rbw.name, StoreSize(rbw.requested),
                                    rbw.remove_on_close, outcome)
           /\ IF e = "none"
              THEN /\ capacity_' = rbw.requested
                   /\ header' = ring_buffer_header(v, ds, DataOffset, rbw.requested)
                   /\ data_' = [i \in 0 .. rbw.requested - 1 |-> Unwritten]
              ELSE UNCHANGED <<capacity_, header, data_>>
    /\ UNCHANGED <<writer, pushed, budget, quota, reader, store, users>>

\* ~ring_buffer: the last reference to the store goes, ~ring_buffer_store.
RingBufferDestroy ==
    /\ rbw.state = "live"
    /\ rbw' = [rbw EXCEPT !.state = "destroyed"]
    /\ shm' = ShmAfterClose(rbw.name, rbw.remove_on_close_)
    /\ UNCHANGED <<ringside, store, users>>

\* ring_buffer_reader<T>(name, underflow_fixup) for the name of the ring
\* buffer: the store is opened read-only, then the constructor goes on.
ReaderOpen(r, fixup, outcome) ==
    /\ reader[r].pc = "none"
    /\ IF OpenError(RbName, outcome) = "none"
       THEN ReaderConstruct(r, fixup)
       ELSE /\ reader' = [reader EXCEPT ![r] =
                   [NoReader EXCEPT !.err = OpenError(RbName, outcome)]]
            /\ ReaderFrame
            /\ Enter

\* No ring buffer yet: no object is registered, the memory to come is zero.
InitHost ==
    /\ capacity_ = 0
    /\ header = ring_buffer_header(0, 0, 0, 0)
    /\ data_ = [i \in {} |-> Unwritten]
    /\ writer = WriterIdle
    /\ pushed = 0
    /\ budget = 0
    /\ quota = AnyCalls
    /\ reader = [r \in Readers |-> NoReader]
    /\ shm = [n \in ValidNames |-> NoObject]
    /\ store = [h \in StoreHandles |-> NoStore]
    /\ rbw = NoRingBuffer
    /\ iter = NoIter
    /\ drain = NoDrain

StoreName == "ring_buffer_store_test"

\* Stores created, opened, written and closed on their own.
NextStore ==
    \/ \E h \in StoreHandles, name \in {StoreName} \cup InvalidNames, size \in StoreSizes,
          remove_on_close \in BOOLEAN, outcome \in HostOutcomes :
          StoreCreate(h, name, size, remove_on_close, outcome)
    \/ \E h \in StoreHandles, outcome \in HostOutcomes \ {"truncate"} :
          StoreOpen(h, StoreName, outcome)
    \/ \E h \in StoreHandles, i \in 0 .. MaxStoreSize - 1, b \in Bytes : StoreWrite(h, i, b)
    \/ \E h \in StoreHandles : StoreClose(h)

SpecStore == InitHost /\ [][NextStore]_vars

\* Ring buffers constructed and destroyed, readers constructed.
NextConstruct ==
    \/ \E name \in {RbName} \cup InvalidNames, cap \in RequestedCapacities,
          remove_on_close \in BOOLEAN : ConstructBegin(name, cap, remove_on_close)
    \/ \E line \in CacheLineSizes, page \in PageSizes : ConstructSysconf(line, page)
    \/ \E v \in Versions, ds \in ItemSizes, outcome \in HostOutcomes :
          ConstructStore(v, ds, outcome)
    \/ RingBufferDestroy
    \/ \E fixup \in Fixups, outcome \in HostOutcomes \ {"truncate"} :
          ReaderOpen(1, fixup, outcome)

SpecConstruct == InitHost /\ [][NextConstruct]_vars

\* A ring buffer of a small capacity is constructed; once it is, its writer
\* pushes and a reader is attached and used in any way.
InitOne ==
    /\ capacity_ = 0
    /\ header = ring_buffer_header(0, 0, 0, 0)
    /\ data_ = [i \in {} |-> Unwritten]
    /\ writer = WriterIdle
    /\ pushed = 0
    /\ budget = MaxPushOne
    /\ quota = AnyCalls
    /\ reader = [r \in Readers |-> NoReader]
    /\ shm = [n \in ValidNames |-> NoObject]
    /\ store = [h \in StoreHandles |-> NoStore]
    /\ rbw = NoRingBuffer
    /\ iter = NoIter
    /\ drain = NoDrain

NextOne ==
    \/ \E k \in 0 .. MaxCapLogOne, remove_on_close \in BOOLEAN :
          ConstructBegin(RbName, 2 ^ k, remove_on_close)
    \/ \E line \in CacheLineSizes, page \in PageSizes : ConstructSysconf(line, page)
    \/ \E outcome \in HostOutcomes : ConstructStore(ring_buffer_version, ItemSize, outcome)
    \/ rbw.state = "live" /\ WriterStep
    \/ rbw.state = "live" /\ EmplaceBegin
    \/ \E fixup \in Fixups : rbw.state = "live" /\ ReaderOpen(1, fixup, "ok")
    \/ ReaderSize(1)
    \/ \E n \in 0 .. MaxNext : ReaderNext(1, n)
    \/ GetBegin(1)
    \/ GetSpin(1)
    \/ GetCopy(1, 1)
    \/ GetCopy(1, 2)
    \/ GetRecheck(1)

SpecOne == InitOne /\ [][NextOne]_vars

\* ---------------------------------------------------------------- iterator

\* ring_buffer_iterator::reader_ of the end sentinel (nullptr).
Sentinel == 0

\* The values of reader_: the sentinel or the address of a reader.
IterValues == {Sentinel} \cup Readers

\* ring_buffer_iterator::equal: the reader whose empty() decides the
\* comparison of a with b, Sentinel when no reader is asked.
EqualCalleeLeftOnly(a, b) ==
    IF a # Sentinel /\ b # Sentinel THEN Sentinel
    ELSE a

EqualCallee(a, b) ==
    IF a # Sentinel /\ b # Sentinel THEN Sentinel
    ELSE IF a # Sentinel THEN a
    ELSE b

\* ring_buffer_iterator::equal when no reader is asked: two attached
\* iterators compare their readers, two sentinels are equal.
EqualNow(a, b) ==
    IF a # Sentinel /\ b # Sentinel THEN a = b ELSE TRUE

\* The iterator and the loop leave the buffer, the readers and the host alone.
IterFrame == UNCHANGED <<capacity_, header, data_, writer, pushed, budget, reader,
                         shm, store, rbw, drain>>

\* The iterator calls one method of a reader / is between two calls.
OneCall == [limited |-> TRUE, left |-> 1]

NoCall == [limited |-> TRUE, left |-> 0]

\* The call the iterator made has returned.
Returned(r) == quota.left = 0 /\ reader[r].pc = "idle"

\* reader.begin(), taken by a range-for (loop) or by code that uses the
\* iterator freely.  calm: the writer has nothing more to push.
IterBegin(r, loop) ==
    /\ iter.pc = "none"
    /\ reader[r].pc = "idle"
    /\ iter' = [NoIter EXCEPT !.pc = IF loop THEN "test" ELSE "free",
                              !.reader_ = r,
                              !.loop = loop,
                              !.calm = (budget = 0 /\ writer.pc = "idle")]
    /\ quota' = NoCall
    /\ IterFrame

\* Where the iterator's user goes after an operation: a range-for goes round
\* its loop, other code may use any operation next.
AfterEqual(it, eq) ==
    IF it.loop THEN (IF eq THEN "done" ELSE "deref") ELSE "free"

\* a == b is entered: equal(b) of a.  The range-for compares begin with end.
IterEqualBegin(a, b) ==
    /\ \/ iter.pc = "test" /\ a = iter.reader_ /\ b = Sentinel
       \/ iter.pc = "free"
    /\ \A x \in {a, b} \ {Sentinel} : reader[x].pc = "idle"
    /\ LET c == EqualCallee(a, b)
       IN  IF c = Sentinel
           THEN /\ iter' = [iter EXCEPT !.lhs = a, !.rhs = b, !.callee = c,
                                        !.eq = EqualNow(a, b),
                                        !.pc = AfterEqual(iter, EqualNow(a, b))]
                /\ quota' = NoCall
           ELSE /\ iter' = [iter EXCEPT !.lhs = a, !.rhs = b, !.callee = c,
                                        !.pc = "in_empty"]
                /\ quota' = OneCall
    /\ IterFrame

\* equal returns what empty() of the reader returned.
IterEqualEnd ==
    /\ iter.pc = "in_empty"
    /\ Returned(iter.callee)
    /\ LET eq == reader[iter.callee].sz = 0
       IN  iter' = [iter EXCEPT !.eq = eq, !.pc = AfterEqual(iter, eq)]
    /\ UNCHANGED quota
    /\ IterFrame

\* *it is entered: dereference() calls reader_->get().
IterDereferenceBegin ==
    /\ iter.pc \in {"deref", "free"}
    /\ iter' = [iter EXCEPT !.pc = "in_get"]
    /\ quota' = OneCall
    /\ IterFrame

\* dereference() stores what get() returned in value_ and returns it; the
\* body of the range-for receives it.
IterDereferenceEnd ==
    /\ iter.pc = "in_get"
    /\ Returned(iter.reader_)
    /\ iter' = [iter EXCEPT !.value_ = reader[iter.reader_].ret,
                            !.yielded = IF iter.loop
                                        THEN Append(@, reader[iter.reader_].ret)
                                        ELSE @,
                            !.pc = IF iter.loop THEN "incr" ELSE "free"]
    /\ UNCHANGED quota
    /\ IterFrame

\* ++it is entered: increment() calls reader_->next().
IterIncrementBegin ==
    /\ iter.pc \in {"incr", "free"}
    /\ iter' = [iter EXCEPT !.pc = "in_next"]
    /\ quota' = OneCall
    /\ IterFrame

IterIncrementEnd ==
    /\ iter.pc = "in_next"
    /\ Returned(iter.reader_)
    /\ iter' = [iter EXCEPT !.pc = IF iter.loop THEN "test" ELSE "free"]
    /\ UNCHANGED quota
    /\ IterFrame

\* Calls in which increment() moves two records on.
IterCallsSkipping ==
    \/ iter.pc = "in_empty" /\ ReaderSize(iter.callee)
    \/ iter.pc = "in_get" /\ GetBegin(iter.reader_)
    \/ iter.pc = "in_get" /\ GetSpin(iter.reader_)
    \/ iter.pc = "in_get" /\ GetCopy(iter.reader_, 1)
    \/ iter.pc = "in_get" /\ GetCopy(iter.reader_, 2)
    \/ iter.pc = "in_get" /\ GetRecheck(iter.reader_)
    \/ iter.pc = "in_next" /\ ReaderNext(iter.reader_, 2)

\* The methods of the reader run inside the iterator's operations.
IterCalls ==
    \/ iter.pc = "in_empty" /\ ReaderSize(iter.callee)
    \/ iter.pc = "in_get" /\ GetBegin(iter.reader_)
    \/ iter.pc = "in_get" /\ GetSpin(iter.reader_)
    \/ iter.pc = "in_get" /\ GetCopy(iter.reader_, 1)
    \/ iter.pc = "in_get" /\ GetCopy(iter.reader_, 2)
    \/ iter.pc = "in_get" /\ GetRecheck(iter.reader_)
    \/ iter.pc = "in_next" /\ ReaderNext(iter.reader_, 1)

\* A buffer of any capacity, a writer with up to MaxPushIter pushes to make
\* and no reader yet.
InitLoop ==
    /\ \E cap \in Capacities : Constructed(cap)
    /\ Hosted
    /\ budget \in 0 .. MaxPushIter
    /\ quota = AnyCalls
    /\ reader = [r \in Readers |-> NoReader]

\* for (auto val : rbr) over reader 1, beside the writer.
NextLoop ==
    \/ WriterStep
    \/ \E fixup \in Fixups : iter.pc = "none" /\ ReaderConstruct(1, fixup)
    \/ IterBegin(1, TRUE)
    \/ IterEqualBegin(iter.reader_, Sentinel)
    \/ IterEqualEnd
    \/ IterDereferenceBegin
    \/ IterDereferenceEnd
    \/ IterIncrementBegin
    \/ IterIncrementEnd
    \/ IterCalls

\* The steps of the thread that runs the loop.
LoopGoesOn ==
    \/ IterEqualBegin(iter.reader_, Sentinel)
    \/ IterEqualEnd
    \/ IterDereferenceBegin
    \/ IterDereferenceEnd
    \/ IterIncrementBegin
    \/ IterIncrementEnd
    \/ IterCalls

\* The thread of the loop keeps running.
SpecLoop == InitLoop /\ [][NextLoop]_vars /\ WF_vars(LoopGoesOn)

InitIter ==
    /\ \E cap \in Capacities : Constructed(cap)
    /\ Hosted
    /\ budget = MaxPushFree
    /\ quota = AnyCalls
    /\ reader = [r \in Readers |-> NoReader]

\* An iterator of reader 1 whose operations are used in any order and compared
\* with sentinels and with iterators of either reader, beside the writer.
\* Reader 2 is attached after reader 1.
NextIter ==
    \/ WriterStep
    \/ \E fixup \in {0, MaxFixup} : iter.pc = "none" /\ ReaderConstruct(1, fixup)
    \/ iter.pc = "none" /\ reader[1].pc = "idle" /\ ReaderConstruct(2, MaxFixup)
    \/ IterBegin(1, FALSE)
    \/ \E a, b \in IterValues : IterEqualBegin(a, b)
    \/ IterEqualEnd
    \/ IterDereferenceBegin
    \/ IterDereferenceEnd
    \/ IterIncrementBegin
    \/ IterIncrementEnd
    \/ IterCalls

SpecIter == InitIter /\ [][NextIter]_vars

\* ------------------------------------------------------ reading a reader empty

\* The code leaves the buffer, the readers and the host alone.
DrainFrame == UNCHANGED <<capacity_, header, data_, writer, pushed, budget, reader,
                          shm, store, rbw, iter>>

\* The writer has stopped for good.
Quiescent == budget = 0 /\ writer.pc = "idle"

\* Once the writer has stopped: int cur_data = rbr.get() is entered.
DrainBegin ==
    /\ drain.pc = "none"
    /\ Quiescent
    /\ reader[1].pc = "idle"
    /\ drain' = [NoDrain EXCEPT !.pc = "get0",
                                !.from = reader[1].read_pos_,
                                !.over = first(header.positions) > reader[1].read_pos_]
    /\ quota' = OneCall
    /\ DrainFrame

\* The call made has returned; its result is kept and the next call is made:
\* cur_data = get(); next(); cur_size = size(); cur_size times get(), next();
\* then size().
DrainAfter(d, rd) ==
    CASE d.pc = "get0"  -> [d EXCEPT !.cur_data = rd.ret, !.pc = "next0"]
      [] d.pc = "next0" -> [d EXCEPT !.pc = "size0"]
      [] d.pc = "size0" -> [d EXCEPT !.cur_size = rd.sz,
                                     !.pc = IF rd.sz = 0 THEN "size1" ELSE "get"]
      [] d.pc = "get"   -> [d EXCEPT !.seq = Append(@, rd.ret), !.pc = "next"]
      [] d.pc = "next"  -> [d EXCEPT !.pc = IF Len(d.seq) = d.cur_size
                                            THEN "size1" ELSE "get"]
      [] d.pc = "size1" -> [d EXCEPT !.end_size = rd.sz, !.pc = "done"]

DrainStep ==
    /\ drain.pc \notin {"none", "done"}
    /\ Returned(1)
    /\ drain' = DrainAfter(drain, reader[1])
    /\ quota' = IF drain'.pc = "done" THEN NoCall ELSE OneCall
    /\ DrainFrame

\* Calls in which next() moves two records on.
DrainCallsSkipping ==
    \/ drain.pc \in {"size0", "size1"} /\ ReaderSize(1)
    \/ drain.pc \in {"get0", "get"} /\ GetBegin(1)
    \/ drain.pc \in {"get0", "get"} /\ GetSpin(1)
    \/ drain.pc \in {"get0", "get"} /\ GetCopy(1, 1)
    \/ drain.pc \in {"get0", "get"} /\ GetCopy(1, 2)
    \/ drain.pc \in {"get0", "get"} /\ GetRecheck(1)
    \/ drain.pc \in {"next0", "next"} /\ ReaderNext(1, 2)

\* The methods of the reader run when the code calls them.
DrainCalls ==
    \/ drain.pc \in {"size0", "size1"} /\ ReaderSize(1)
    \/ drain.pc \in {"get0", "get"} /\ GetBegin(1)
    \/ drain.pc \in {"get0", "get"} /\ GetSpin(1)
    \/ drain.pc \in {"get0", "get"} /\ GetCopy(1, 1)
    \/ drain.pc \in {"get0", "get"} /\ GetCopy(1, 2)
    \/ drain.pc \in {"get0", "get"} /\ GetRecheck(1)
    \/ drain.pc \in {"next0", "next"} /\ ReaderNext(1, 1)

\* While the writer pushes, the reader is used in any way.
DrainBefore ==
    /\ drain.pc = "none"
    /\ \/ \E fixup \in Fixups : ReaderConstruct(1, fixup)
       \/ ReaderSize(1)
       \/ \E n \in 0 .. MaxNext : ReaderNext(1, n)
       \/ GetBegin(1)
       \/ GetSpin(1)
       \/ GetCopy(1, 1)
       \/ GetCopy(1, 2)
       \/ GetRecheck(1)

\* A buffer of any capacity, a writer with up to MaxPushDrain pushes to make.
InitDrain ==
    /\ \E cap \in Capacities : Constructed(cap)
    /\ Hosted
    /\ budget \in 0 .. MaxPushDrain
    /\ quota = [limited |-> TRUE, left |-> MaxCallsDrain]
    /\ reader = [r \in Readers |-> NoReader]

NextDrain ==
    \/ WriterStep
    \/ DrainBefore
    \/ DrainBegin
    \/ DrainStep
    \/ DrainCalls

\* The steps of the thread that reads the reader empty.
DrainGoesOn == DrainStep \/ DrainCalls

\* That thread keeps running.
SpecDrain == InitDrain /\ [][NextDrain]_vars /\ WF_vars(DrainGoesOn)

\* -------------------------------------------------------------- properties

Attached == {r \in Readers : reader[r].pc # "none"}

\* The step in which get() of reader r returns.
GetReturns(r) == reader[r].pc = "recheck" /\ reader'[r].pc = "idle"

\* The records a reader received are those pushed from the position it
\* attached at, in push order.
Continuous(rd) == rd.got = [i \in 1 .. Len(rd.got) |-> Rec(rd.start + i - 1)]

\* The step in which get() of reader r, called in a get(); next() loop, returns
\* a record of a higher sequence number than the one it returned before.
Monotone(r) ==
    (GetReturns(r) /\ reader[r].calls = "get" /\ reader[r].ret # NoValue) =>
        \A h, k \in 1 .. 2 : reader'[r].ret[h] > reader[r].ret[k]

\* C1: every value get() returns equals the record written by one push call;
\* it is never a mix of the halves of two records.
C1_NoPartialReads ==
    \A r \in Attached :
        reader[r].ret = NoValue \/ \E n \in 0 .. Horizon : reader[r].ret = Rec(n)

\* C2: a reader that was never lapped and calls get() and next() alternately
\* has received exactly the records pushed from the position it attached at,
\* in push order, none skipped or duplicated; between two pairs its cursor
\* stands right after the last record received, so that it is empty once it
\* has received every record pushed.
C2_SequenceContinuity ==
    \A r \in Attached :
        LET rd == reader[r] IN
        (~rd.lapped /\ rd.calls # "free") =>
            /\ Continuous(rd)
            /\ (rd.pc = "idle" /\ rd.calls = "get") =>
                   rd.read_pos_ = rd.start + Len(rd.got)
            /\ (rd.pc = "idle" /\ rd.calls = "get" /\ rd.start + Len(rd.got) = pushed) =>
                   rd.read_pos_ = last(header.positions)

\* C2 witness: capacity 2, four records (capacity * capacity) pushed and all
\* four received in order by a reader attached to the empty buffer, which is
\* empty at the end.
C2_Witness ==
    /\ capacity_ = 2
    /\ pushed = 4
    /\ reader[1].got = <<Rec(0), Rec(1), Rec(2), Rec(3)>>
    /\ reader[1].pc = "idle"
    /\ reader[1].calls = "get"
    /\ reader[1].read_pos_ = last(header.positions)

\* C3: a reader that loops get(); next() never receives a record whose
\* sequence number is lower than or equal to that of the record it received
\* before, however far the writer runs ahead.
C3_MonotoneDelivery ==
    [][\A r \in Readers : Monotone(r)]_vars

\* C3 witness: a reader in a get(); next() loop that received record 0, was
\* lapped and adjusted, and is about to return record 3 from its next get().
C3_Witness ==
    /\ reader[1].calls = "get"
    /\ reader[1].adjusted
    /\ reader[1].ret = Rec(0)
    /\ reader[1].pc = "recheck"
    /\ reader[1].item = Rec(3)
    /\ first(header.positions) <= reader[1].read_pos_

\* C4: every record get() returns was copied from a position p = read_pos
\* with first <= p < last in the position word loaded before the copy.
C4_CopyFromPublished ==
    [][\A r \in Readers :
          GetReturns(r) =>
              /\ first(reader[r].pos) <= reader[r].read_pos_
              /\ reader[r].read_pos_ < last(reader[r].pos)]_vars

\* C5: after n pushes from empty the writer's size() is min(n, capacity - 1):
\* n up to capacity - 1 pushes, capacity - 1 from then on; empty() holds
\* exactly when size() is 0.
C5_PushSize ==
    /\ ring_buffer_size(header.positions) = Min(pushed, capacity_ - 1)
    /\ pushed < capacity_ => ring_buffer_size(header.positions) = pushed
    /\ pushed >= capacity_ => ring_buffer_size(header.positions) = capacity_ - 1
    /\ ring_buffer_empty(header.positions) <=> (pushed = 0 \/ capacity_ = 1)

\* C5 witness: exactly capacity pushes, size() is capacity - 1.
C5_Witness ==
    /\ capacity_ = 4
    /\ pushed = capacity_
    /\ writer.pc = "idle"
    /\ ring_buffer_size(header.positions) = capacity_ - 1

\* C6: the position word is always a consistent pair: last is the number of
\* records written, first is max(0, last - capacity + 1), last - first is at
\* most capacity - 1; a push raises last by exactly 1 and first never decreases.
C6_PositionWord ==
    /\ [](/\ last(header.positions) = pushed
          /\ first(header.positions) = Max(0, last(header.positions) - capacity_ + 1)
          /\ last(header.positions) - first(header.positions) <= capacity_ - 1)
    /\ [][/\ first(header.positions') >= first(header.positions)
          /\ last(header.positions') >= last(header.positions)
          /\ (pushed' # pushed) =>
                 last(header.positions') = last(header.positions) + 1]_vars

\* C6 witness: the writer has advanced first.
C6_Witness ==
    /\ capacity_ = 2
    /\ first(header.positions) = 3
    /\ last(header.positions) = 4

\* C7: across the wrap of the counters the unsigned difference last - first
\* stays at most capacity - 1 and size() stays min(pushes, capacity - 1).
C7_WriterWraparound ==
    /\ Unsigned(last(header.positions) - first(header.positions)) <= capacity_ - 1
    /\ ring_buffer_size(header.positions) = Min(pushed, capacity_ - 1)

\* The step in which reader r, in get(), loads the position word and decides
\* to wait (spin_wait finds read_pos_ >= last).
GetWaits(r) ==
    /\ writer' = writer
    /\ \A q \in Readers \ {r} : reader'[q] = reader[q]
    /\ reader[r].pc \in {"idle", "spin"}
    /\ reader'[r].pc = "spin"

\* C8: a reader that keeps pace with the writer (get(); next() after every
\* push, never lapped) is never adjusted, receives every pushed record in
\* order, and waits in get() only while no record is published at its cursor,
\* also while the counters wrap.
C8_ReaderWraparound ==
    /\ [](\A r \in Attached :
            LET rd == reader[r] IN
            (rd.paced /\ ~rd.lapped /\ rd.calls # "free") =>
                /\ ~rd.adjusted
                /\ Continuous(rd))
    /\ [][\A r \in Readers :
            (/\ GetWaits(r)
             /\ reader'[r].paced /\ ~reader'[r].lapped /\ reader'[r].calls # "free") =>
                reader'[r].tpos >= pushed]_vars

\* What the program holds for a reader: the fields of the reader object, the
\* locals of the method it is in, and the values its methods returned.
Own(rd) ==
    <<rd.pc, rd.underflow_fixup_, rd.read_pos_, rd.capacity_mask_, rd.pos, rd.item,
      rd.ret, rd.opt, rd.sz>>

C10_ReadersNeverMutate ==
    [][\A r \in Readers :
          /\ (writer' = writer) => (header' = header /\ data_' = data_)
          /\ reader[r].pc # "none" =>
                /\ reader'[r].underflow_fixup_ = reader[r].underflow_fixup_
                /\ reader'[r].capacity_mask_ = reader[r].capacity_mask_]_vars

\* C10 witness: a reader that called get(), next(1), size() and try_get() on a
\* buffer of capacity 4 holding records 0 and 1, the shared memory being what
\* the writer made it.
C10_Witness ==
    /\ capacity_ = 4
    /\ reader[1].ret = Rec(0)
    /\ reader[1].read_pos_ = 1
    /\ reader[1].sz = 1
    /\ reader[1].opt = Rec(1)
    /\ header = [ring_buffer_header(ring_buffer_version, ItemSize, DataOffset, 4)
                     EXCEPT !.positions = make_positions(0, 2)]
    /\ data_ = [i \in 0 .. 3 |-> IF i < 2 THEN Rec(i) ELSE Unwritten]

\* The writer is inside push_helper, between its load of the position word
\* and its store: the slot of its local last is the one being written.
Writing == writer.pc \in {"init0", "init1", "store"}

\* C11: the slot the writer is writing for its next, not yet published record
\* differs from the slot of every position p with first <= p < last of the
\* published position word; a reader whose read_pos lies in that range and
\* which is copying is not copying the slot being written.
C11_SlotSafety ==
    Writing =>
        /\ \A p \in first(header.positions) .. last(header.positions) - 1 :
              SlotOf(p, capacity_ - 1) # SlotOf(writer.last, capacity_ - 1)
        /\ \A r \in Attached :
              (/\ reader[r].pc \in {"copy0", "copy1", "trycopy0", "trycopy1"}
               /\ first(header.positions) <= reader[r].read_pos_
               /\ reader[r].read_pos_ < last(header.positions)) =>
                  SlotOf(reader[r].read_pos_, reader[r].capacity_mask_)
                      # SlotOf(writer.last, capacity_ - 1)

\* C11 witness: capacity 2 holding one valid record (position 2, slot 0), the
\* writer half way through writing the next record into slot 1 while a reader
\* copies the record at position 2.
C11_Witness ==
    /\ capacity_ = 2
    /\ writer.pc = "init1"
    /\ header.positions = make_positions(2, 3)
    /\ reader[1].pc = "copy1"
    /\ reader[1].read_pos_ = 2

\* A step of get() of reader r, or a step that leaves r inside get().
InGet(r) == reader'[r].pc \in {"spin", "copy0", "copy1", "recheck"} \/ GetReturns(r)

\* C12: get() does not advance the cursor: while first <= read_pos no step
\* of get() changes read_pos, and a get() that follows a get() with no next()
\* and no published push in between returns the same record from the same
\* read_pos.
C12_GetKeepsCursor ==
    [][\A r \in Readers :
          /\ (InGet(r) /\ first(header.positions) <= reader[r].read_pos_) =>
                reader'[r].read_pos_ = reader[r].read_pos_
          /\ (/\ GetReturns(r) /\ reader[r].calls = "next" /\ reader[r].quiet
               /\ first(header.positions) <= reader[r].read_pos_
               /\ reader[r].read_pos_ < last(header.positions)) =>
                reader'[r].ret = reader[r].ret]_vars

\* C13: get() returns only with read_pos < last of the position word it
\* last loaded, and as long as a load of its waiting part finds
\* read_pos >= last it goes on spinning (for ever, when the writer publishes
\* nothing more).
C13_GetBlocksWhileEmpty ==
    [][\A r \in Readers :
          /\ GetReturns(r) => reader'[r].read_pos_ < last(header.positions)
          /\ ((GetBegin(r) \/ GetSpin(r))
                  /\ reader'[r].read_pos_ >= last(header.positions)) =>
                reader'[r].pc = "spin"]_vars

\* The writer has stopped: it is outside push_helper and starts no push.
WriterStopped == writer.pc = "idle" /\ budget = 0

\* Reader r is inside get().
Pending(r) == reader[r].pc \in {"spin", "copy0", "copy1", "recheck"}

\* C14: under weak fairness of the reader's get(), once the writer has stopped
\* in a state where first <= read_pos < last, a pending get() returns.
C14_GetLiveness ==
    (/\ WriterStopped
     /\ Pending(1)
     /\ first(header.positions) <= reader[1].read_pos_
     /\ reader[1].read_pos_ < last(header.positions)) ~> (reader[1].pc = "idle")

\* C14 witness: get() of a reader attached to the empty buffer of capacity 4
\* is still in spin_wait when the writer has published three records and
\* stopped.
C14_Witness ==
    /\ WriterStopped
    /\ capacity_ = 4
    /\ header.positions = make_positions(0, 3)
    /\ reader[1].pc = "spin"
    /\ reader[1].read_pos_ = 0

\* How far into its method a process is at each of the places of push_helper
\* and of try_get.
StepRank ==
    [idle |-> 0, init0 |-> 1, init1 |-> 2, store |-> 3,
     trycopy0 |-> 1, trycopy1 |-> 2, tryrecheck |-> 3, tryagain |-> 4]

\* A step from place a to place b returns or moves further into the method.
Forward(a, b) == b = "idle" \/ StepRank[a] < StepRank[b]

\* A step of try_get() of reader r (a reader's step leaves the writer alone).
TryGetStep(r) ==
    /\ writer' = writer
    /\ reader[r].pc \in {"idle", "tryagain", "trycopy0", "trycopy1", "tryrecheck"}
    /\ TryGetBegin(r) \/ TryGetCopy(r, 1) \/ TryGetCopy(r, 2) \/ TryGetRecheck(r)

\* A step of one of size(), empty() and next() of reader r.
OneStepMethod(r) ==
    /\ writer' = writer
    /\ reader[r].pc = "idle"
    /\ ReaderSize(r) \/ \E n \in 0 .. MaxNext : ReaderNext(r, n)

C16_TryGet ==
    [][\A r \in Readers :
          TryGetStep(r) =>
              /\ reader'[r].pc = "idle" =>
                    /\ reader'[r].opt = Absent <=>
                           reader'[r].read_pos_ >= last(header.positions)
                    /\ reader'[r].opt # Absent =>
                           /\ reader'[r].opt = Rec(reader'[r].tpos)
                           /\ reader'[r].opt =
                                  data_[SlotOf(reader'[r].read_pos_, capacity_ - 1)]
              /\ reader'[r].pc # "spin"
              /\ reader[r].read_pos_ >= first(header.positions) =>
                    reader'[r].read_pos_ = reader[r].read_pos_]_vars

\* C16 witness: on capacity 4 with records 1..3 valid, a try_get() of a lapped
\* reader (underflow_fixup 1) has returned record 2 and left read_pos at 2.
C16_Witness ==
    /\ capacity_ = 4
    /\ header.positions = make_positions(1, 4)
    /\ reader[1].pc = "idle"
    /\ reader[1].adjusted
    /\ reader[1].opt = Rec(2)
    /\ reader[1].read_pos_ = 2

\* C17: next(n) adds n to read_pos_ and changes nothing else the reader
\* holds and nothing in shared memory. Moving past last is legal: for a
\* reader that is not lapped, next(n) with n >= size() makes size() 0; size()
\* is 0 exactly while last > read_pos does not hold; and get() of a reader
\* that was never adjusted returns the record pushed at position read_pos.
C17_NextIsLocal ==
    [][\A r \in Readers :
          /\ \A n \in 0 .. MaxNext :
                ReaderNext(r, n) =>
                    /\ reader'[r].read_pos_ = Unsigned(reader[r].read_pos_ + n)
                    /\ Own([reader'[r] EXCEPT !.read_pos_ = reader[r].read_pos_])
                           = Own(reader[r])
                    /\ shared' = shared
                    /\ (/\ first(header.positions) <= reader[r].read_pos_
                        /\ n >= SizeValue(reader[r])) => SizeValue(reader'[r]) = 0
          /\ (ReaderSize(r) /\ first(header.positions) <= reader[r].read_pos_) =>
                (reader'[r].sz = 0 <=> ~(last(header.positions) > reader[r].read_pos_))
          /\ (GetReturns(r) /\ ~reader'[r].adjusted) =>
                reader'[r].ret = Rec(reader'[r].tpos)]_vars

\* C17 witness: a reader on capacity 4 that moved to position 2 while only
\* record 0 is published waits in get() for record 2.
C17_Witness ==
    /\ capacity_ = 4
    /\ header.positions = make_positions(0, 1)
    /\ reader[1].pc = "spin"
    /\ reader[1].read_pos_ = 2
    /\ ~reader[1].adjusted

\* C18: next(0) changes nothing: the reader's fields and the shared memory
\* stay as they were, size() would return what it returned before, and a
\* get() called next would begin exactly as it would have begun before.
C18_NextZero ==
    [][\A r \in Readers :
          ReaderNext(r, 0) =>
              /\ Own(reader'[r]) = Own(reader[r])
              /\ shared' = shared
              /\ SizeValue(reader'[r]) = SizeValue(reader[r])
              /\ Own(AfterWait(LoadAndAdjust(reader'[r])))
                     = Own(AfterWait(LoadAndAdjust(reader[r])))]_vars

\* C18 witness: a reader attached to the empty buffer has called nothing but
\* next(0) and is still at position 0 when record 0 is published.
C18_Witness ==
    /\ pushed = 1
    /\ reader[1].pc = "idle"
    /\ reader[1].calls = "free"
    /\ reader[1].ret = NoValue
    /\ reader[1].read_pos_ = 0
    /\ reader[1].tpos = 0
    /\ SizeValue(reader[1]) = 1

\* C19: for a reader that is not lapped size() returns max(0, last - read_pos):
\* 0 on the empty buffer, one more after each push that does not lap the
\* reader, n less after next(n) with n <= size().
C19_ReaderSize ==
    [][\A r \in Attached :
          /\ (ReaderSize(r) /\ first(header.positions) <= reader[r].read_pos_) =>
                reader'[r].sz = Max(0, last(header.positions) - reader[r].read_pos_)
          /\ (pushed = 0 /\ reader[r].read_pos_ = 0) => SizeValue(reader[r]) = 0
          /\ (/\ PushStore
              /\ reader[r].read_pos_ <= last(header.positions)
              /\ first(header.positions') <= reader[r].read_pos_) =>
                SizeValue(reader[r])' = SizeValue(reader[r]) + 1
          /\ \A n \in 0 .. MaxNext :
                (/\ ReaderNext(r, n)
                 /\ first(header.positions) <= reader[r].read_pos_
                 /\ n <= SizeValue(reader[r])) =>
                    SizeValue(reader[r])' = SizeValue(reader[r]) - n]_vars

\* C19 witness: three records pushed on capacity 4, the reader moved on by two
\* and size() returned 1.
C19_Witness ==
    /\ capacity_ = 4
    /\ header.positions = make_positions(0, 3)
    /\ reader[1].pc = "idle"
    /\ reader[1].read_pos_ = 2
    /\ reader[1].sz = 1

\* C20: the reader constructor sets read_pos to the first of the position
\* word it loads: a reader attached once k pushes are published has size()
\* min(k, capacity - 1), which is the writer's size(), and its first get(),
\* if the reader has not moved and was not lapped meanwhile, returns the
\* record that was the oldest valid one when it attached.
C20_ReaderConstruct ==
    [][\A r \in Readers :
          /\ \A fixup \in Fixups :
                (reader'[r].pc = "idle" /\ ReaderConstruct(r, fixup)) =>
                    /\ reader'[r].read_pos_ = first(header.positions)
                    /\ SizeValue(reader'[r]) = Min(pushed, capacity_ - 1)
                    /\ SizeValue(reader'[r]) = ring_buffer_size(header.positions)
                    /\ reader'[r].start = TrueFirst(pushed)
          /\ (/\ GetReturns(r)
              /\ reader[r].ret = NoValue
              /\ reader'[r].tpos = reader[r].start
              /\ ~reader'[r].lapped) => reader'[r].ret = Rec(reader[r].start)]_vars

\* C20 witness: a reader attached to a buffer of capacity 2 after three pushes;
\* size() returned 1 and the first get() returned record 2, the oldest valid.
C20_Witness ==
    /\ capacity_ = 2
    /\ pushed = 3
    /\ reader[1].pc = "idle"
    /\ reader[1].start = 2
    /\ reader[1].read_pos_ = 2
    /\ reader[1].sz = 1
    /\ reader[1].ret = Rec(2)
    /\ ~reader[1].lapped

\* The stored version and record size are those of this reader.
Compatible ==
    header.version = ring_buffer_version /\ header.data_size = ItemSize

\* C21: constructing a reader on a buffer whose stored version or record
\* size differs from the reader's throws before anything is read: there is
\* no reader object afterwards, nothing was copied, and the region and the
\* namespace are as before.  When both match and the store opens, the
\* constructor succeeds.
C21_ReaderValidation ==
    [][\A fixup \in Fixups, outcome \in HostOutcomes \ {"truncate"} :
          ReaderOpen(1, fixup, outcome) =>
              /\ shared' = shared /\ shm' = shm
              /\ (OpenError(RbName, outcome) = "none" /\ ~Compatible) =>
                    reader'[1] = [NoReader EXCEPT !.err = "runtime_error"]
              /\ (OpenError(RbName, outcome) = "none" /\ Compatible) =>
                    /\ reader'[1].pc = "idle"
                    /\ reader'[1].err = "none"
                    /\ reader'[1].capacity_mask_ = header.capacity - 1]_vars

\* C21 witness: a ring_buffer<TestItem> is live and the constructor of a
\* reader of int records has thrown.
C21_Witness ==
    /\ rbw.state = "live"
    /\ header.version = ring_buffer_version
    /\ header.data_size = OtherItemSize
    /\ reader[1].pc = "none"
    /\ reader[1].err = "runtime_error"

\* c is 2^k for some k.
IsPowerOfTwo(c) == \E k \in 0 .. CounterBits + 1 : c = 2 ^ k

\* A step in which a ring_buffer constructor is entered and checks its
\* arguments.
ConstructBegins == rbw.state \in {"none", "destroyed"} /\ rbw' # rbw

\* C22: a ring_buffer constructor called with a capacity that is 0, not a
\* power of two or greater than the largest unsigned throws invalid_argument,
\* and it does so with the namespace untouched; any other capacity passes
\* the argument checks.
C22_CapacityValidation ==
    [][ConstructBegins =>
          LET c == rbw'.requested
          IN  IF c = 0 \/ ~IsPowerOfTwo(c) \/ c > MaxUnsigned
              THEN /\ rbw'.state = "none"
                   /\ rbw'.err = "invalid_argument"
                   /\ shm' = shm
                   /\ shared' = shared
              ELSE rbw'.state = "sysconf"]_vars

\* C22 witness: a capacity of 2^w + 1 was refused for the name of the ring
\* buffer, and the name is not registered.
C22_Witness ==
    /\ rbw.state = "none"
    /\ rbw.err = "invalid_argument"
    /\ rbw.name = RbName
    /\ rbw.requested = Modulus + 1
    /\ ~Registered(RbName)

\* A step in which a ring_buffer constructor throws, at whichever of its
\* steps.
ConstructThrows ==
    /\ rbw.state \in {"none", "destroyed", "sysconf", "create"}
    /\ rbw' # rbw
    /\ rbw'.state = "none"

\* C23: when the ring_buffer constructor throws, no object that this call
\* created stays registered: every name registered afterwards was registered
\* before the call's step.
C23_NothingLeftBehind ==
    [][ConstructThrows =>
          \A n \in ValidNames : shm'[n] # NoObject => shm[n] # NoObject]_vars

\* C24: for every capacity c = 2^k with k >= 1 that an unsigned holds, on a
\* host that passes the checks and an unused name, each step of the
\* constructor goes through, and the new buffer has capacity() = c,
\* size() = 0 and empty() true (built for int records by this version and
\* without remove_on_close, it is the buffer the other behaviours start from).
C24_PowerOfTwoAccepted ==
    [][/\ (ConstructBegins /\ IsPowerOfTwo(rbw'.requested)
              /\ 2 <= rbw'.requested /\ rbw'.requested <= MaxUnsigned) =>
             rbw'.state = "sysconf"
       /\ \A line \in CacheLineSizes, page \in PageSizes :
             (/\ ConstructSysconf(line, page)
              /\ line <= ring_buffer_cache_linesize
              /\ SlotStride <= page) => rbw'.state = "create"
       /\ \A v \in Versions, ds \in ItemSizes :
             (/\ ConstructStore(v, ds, "ok")
              /\ rbw.name \in ValidNames
              /\ ~Registered(rbw.name)) =>
                 /\ rbw'.state = "live"
                 /\ capacity_' = rbw.requested
                 /\ header'.capacity = rbw.requested
                 /\ ring_buffer_size(header'.positions) = 0
                 /\ ring_buffer_empty(header'.positions)
                 /\ (v = ring_buffer_version /\ ds = ItemSize) =>
                        Constructed(rbw.requested)'
                 /\ (/\ v = ring_buffer_version /\ ds = ItemSize
                     /\ ~rbw.remove_on_close
                     /\ \A h \in StoreHandles : store[h] = NoStore) => Hosted']_vars

\* C24 witness: the largest power of two an unsigned holds was asked for and
\* the buffer is live with that capacity and no record.
C24_Witness ==
    /\ rbw.state = "live"
    /\ rbw.requested = Modulus \div 2
    /\ capacity_ = Modulus \div 2
    /\ Registered(RbName)
    /\ shm[RbName].size = StoreSize(Modulus \div 2)
    /\ ring_buffer_empty(header.positions)

\* The step in which the ring_buffer object is destroyed.
Destroyed == rbw.state = "live" /\ rbw'.state = "destroyed"

\* C25: when a ring_buffer constructed with remove_on_close = true is
\* destroyed its name is no longer registered (so that an open fails as not
\* found and a creation succeeds); constructed with remove_on_close = false,
\* its name is still registered after the destruction.
C25_RemoveOnClose ==
    [][Destroyed =>
          /\ rbw.remove_on_close =>
                /\ shm'[rbw.name] = NoObject
                /\ \A outcome \in HostOutcomes :
                      /\ OpenError(rbw.name, outcome)' = "not_found_error"
                      /\ CreateError(rbw.name, "ok")' = "none"
          /\ ~rbw.remove_on_close => shm'[rbw.name] = shm[rbw.name]]_vars

\* C26: creating a store under a name that is registered throws the
\* already-exists error and leaves the namespace, the object and its bytes
\* as they were; opening a name that is not registered throws the not-found
\* error and registers nothing.  Neither leaves a store object.
C26_StoreErrors ==
    [][\A h \in StoreHandles :
          /\ \A size \in StoreSizes, remove_on_close \in BOOLEAN, outcome \in HostOutcomes :
                (/\ StoreCreate(h, StoreName, size, remove_on_close, outcome)
                 /\ Registered(StoreName)) =>
                    /\ store'[h] = [NoStore EXCEPT !.err = "already_exists_error"]
                    /\ shm' = shm
          /\ \A outcome \in HostOutcomes \ {"truncate"} :
                (StoreOpen(h, StoreName, outcome) /\ ~Registered(StoreName)) =>
                    /\ store'[h] = [NoStore EXCEPT !.err = "not_found_error"]
                    /\ shm' = shm]_vars

\* C26 witness: a second creation under the name of an open store whose
\* first byte was set to 1 has thrown; the byte is still 1.
C26_Witness ==
    /\ store[1].state = "open"
    /\ store[1].mode = "read_write"
    /\ store[2].state = "none"
    /\ store[2].err = "already_exists_error"
    /\ Registered(StoreName)
    /\ ByteAt(shm[StoreName], 0) = 1

\* Stores that are open on the same name report the same size, the size of
\* the object, and read the same byte at every offset.
StoreAgreement ==
    \A h \in StoreHandles : store[h].state = "open" =>
        /\ store[h].size = shm[store[h].name].size
        /\ \A g \in StoreHandles :
              (store[g].state = "open" /\ store[g].name = store[h].name) =>
                  /\ store[g].size = store[h].size
                  /\ \A i \in 0 .. store[h].size - 1 : StoreRead(g, i) = StoreRead(h, i)

\* C27: a created store reports the requested size and read-write mode; an
\* opened store reports read-only mode and the size of the created object;
\* a byte written through the creator's mapping is the byte every open store
\* of the name reads at that offset, and open stores of a name always agree.
C27_StoreAgreement ==
    [][\A h \in StoreHandles :
          /\ \A size \in StoreSizes, remove_on_close \in BOOLEAN :
                (/\ StoreCreate(h, StoreName, size, remove_on_close, "ok")
                 /\ ~Registered(StoreName)) =>
                    /\ store'[h].state = "open"
                    /\ store'[h].size = size
                    /\ store'[h].mode = "read_write"
          /\ (StoreOpen(h, StoreName, "ok") /\ store'[h].state = "open") =>
                    /\ store'[h].mode = "read_only"
                    /\ store'[h].size = shm[StoreName].size
          /\ \A i \in 0 .. MaxStoreSize - 1, b \in Bytes :
                StoreWrite(h, i, b) =>
                    \A g \in StoreHandles :
                        (store'[g].state = "open" /\ store'[g].name = store[h].name) =>
                            StoreRead(g, i)' = b
          /\ StoreAgreement']_vars

\* C27 witness: a store opened beside its creator reports the creator's two
\* bytes and reads the 1 the creator wrote at offset 1.
C27_Witness ==
    /\ \E h \in StoreHandles : store[h].state = "open" /\ store[h].mode = "read_write"
                                /\ store[h].size = MaxStoreSize
    /\ \E g \in StoreHandles :
          /\ store[g].state = "open"
          /\ store[g].mode = "read_only"
          /\ store[g].size = MaxStoreSize
          /\ StoreRead(g, MaxStoreSize - 1) = 1

\* A range-for that began when the writer had pushed fewer records than the
\* capacity and had nothing more to push.
CalmLoop == iter.loop /\ iter.calm /\ pushed < capacity_

\* C28: a range-for over a reader, begun after the writer pushed n < capacity
\* records and stopped, yields records 0, 1, ..., in push order, never more
\* than n, has yielded exactly n when it ends, and does end.
C28_IteratorRoundTrip ==
    /\ [](CalmLoop =>
            /\ Len(iter.yielded) <= pushed
            /\ \A i \in 1 .. Len(iter.yielded) : iter.yielded[i] = Rec(i - 1)
            /\ iter.pc = "done" => Len(iter.yielded) = pushed)
    /\ (CalmLoop ~> iter.pc = "done")

\* C28 witness: the loop over a buffer of capacity 4 has ended after yielding
\* the records 0, 1, 2 (n = capacity - 1).
C28_Witness ==
    /\ CalmLoop
    /\ iter.pc = "done"
    /\ capacity_ = 4
    /\ pushed = capacity_ - 1
    /\ iter.yielded = <<Rec(0), Rec(1), Rec(2)>>

\* A step of a reader's method: neither the writer nor the iterator moves.
CallStep == writer' = writer /\ iter' = iter /\ reader' # reader

\* The one attached operand of a comparison with a sentinel.
AttachedOperand(a, b) == IF a # Sentinel THEN a ELSE b

\* C29: comparing two attached iterators gives whether their readers are the
\* same, comparing two sentinels gives true, and neither asks a reader;
\* comparing an attached iterator with a sentinel, in either order, calls
\* empty() of its reader once, on the position word stored at that moment,
\* and gives what it returned.  Incrementing makes one call that moves
\* read_pos_ on by exactly 1.  Dereferencing gives what get() returned, and
\* while it runs read_pos_ stays unless the writer has overrun it.
C29_IteratorSemantics ==
    [][/\ \A a, b \in IterValues :
             IterEqualBegin(a, b) =>
                 IF a # Sentinel /\ b # Sentinel
                 THEN iter'.pc = "free" /\ iter'.eq = (a = b) /\ quota'.left = 0
                 ELSE IF a = Sentinel /\ b = Sentinel
                 THEN iter'.pc = "free" /\ iter'.eq /\ quota'.left = 0
                 ELSE /\ iter'.pc = "in_empty"
                      /\ iter'.callee = AttachedOperand(a, b)
                      /\ quota'.left = 1
       /\ (iter.pc = "in_empty" /\ CallStep) =>
             /\ quota.left = 1 /\ quota'.left = 0
             /\ reader'[iter.callee].sz = SizeValue(reader[iter.callee])
             /\ \A r \in Readers \ {iter.callee} : reader'[r] = reader[r]
       /\ IterEqualEnd =>
             /\ quota.left = 0
             /\ iter'.eq = (reader[iter.callee].sz = 0)
       /\ (iter.pc = "in_next" /\ CallStep) =>
             /\ quota.left = 1 /\ quota'.left = 0
             /\ reader'[iter.reader_].read_pos_ =
                    Unsigned(reader[iter.reader_].read_pos_ + 1)
       /\ IterIncrementEnd => quota.left = 0
       /\ (iter.pc = "in_get" /\ CallStep) =>
             (first(header.positions) <= reader[iter.reader_].read_pos_ =>
                 reader'[iter.reader_].read_pos_ = reader[iter.reader_].read_pos_)
       /\ IterDereferenceEnd =>
             /\ quota.left = 0
             /\ iter'.value_ = reader[iter.reader_].ret]_vars

\* C29 witness: the iterator was dereferenced to record 0 and incremented,
\* and was then found unequal to the sentinel on its left while record 1
\* was there to read.
C29_Witness ==
    /\ iter.pc = "free"
    /\ iter.lhs = Sentinel
    /\ iter.rhs = 1
    /\ iter.callee = 1
    /\ ~iter.eq
    /\ iter.value_ = Rec(0)
    /\ reader[1].read_pos_ = 1
    /\ reader[1].sz = 1

\* The first get() of the code has returned / its first size() has returned.
DrainGot == drain.pc \notin {"none", "get0"}

DrainSized == drain.pc \notin {"none", "get0", "next0", "size0"}

\* C30: reading begins once the writer has stopped.  If first had passed
\* read_pos, the first get() does not return the record of that read_pos and,
\* after next(), size() is at most capacity - 2.  Whatever happened before,
\* the get(); next() pairs that follow return the successors of that first
\* record one by one, size() of them, then size() is 0; and once the first
\* get() has returned the code comes to that end.
C30_OverrunRecovery ==
    /\ []((drain.over /\ DrainGot) => drain.cur_data # Rec(drain.from))
    /\ []((drain.over /\ DrainSized) => drain.cur_size <= capacity_ - 2)
    /\ [](DrainGot =>
            /\ \E n \in 0 .. pushed - 1 : drain.cur_data = Rec(n)
            /\ Len(drain.seq) <= drain.cur_size
            /\ \A k \in 1 .. Len(drain.seq) :
                  drain.seq[k] = Rec(drain.cur_data[1] + k)
            /\ drain.pc = "done" =>
                  Len(drain.seq) = drain.cur_size /\ drain.end_size = 0)
    /\ (DrainGot ~> drain.pc = "done")

\* C30 witness: in a buffer of capacity 4 the reader had consumed record 0,
\* five pushes moved first to 2, past read_pos 1; the code got record 2, then
\* records 3 and 4 in its size() = 2 steps, and found size() 0.
C30_Witness ==
    /\ drain.pc = "done"
    /\ capacity_ = 4
    /\ pushed = 5
    /\ drain.over
    /\ drain.from = 1
    /\ drain.cur_data = Rec(2)
    /\ drain.cur_size = capacity_ - 2
    /\ drain.seq = <<Rec(3), Rec(4)>>
    /\ drain.end_size = 0

\* The position word and the slots as one push of the next record leaves them.
AfterOnePush ==
    PushesFrom([positions |-> header.positions, data |-> data_],
               capacity_, pushed, pushed + 1)

\* C31: emplace(args...) loads the position word as push does, writes into the
\* same slot the fields push(T{args...}) writes there, and on its store leaves
\* the position word and the slots as that push leaves them; a get() of a
\* reader that was never adjusted then returns the record whose fields are
\* the arguments.
C31_EmplaceIsPush ==
    [][/\ EmplaceBegin =>
             /\ writer'.first = first(header.positions)
             /\ writer'.last = last(header.positions)
             /\ header' = header /\ data_' = data_
       /\ \A h \in {1, 2} :
             (writer.how = "emplace" /\ PushInit(h)) =>
                 /\ data_' = [data_ EXCEPT ![SlotOf(last(header.positions), capacity_ - 1)][h] =
                                              Placed("push", pushed)[h]]
                 /\ header' = header
       /\ (writer.how = "emplace" /\ PushStore) =>
             [positions |-> header'.positions, data |-> data_'] = AfterOnePush
       /\ (GetReturns(1) /\ ~reader'[1].adjusted) =>
             reader'[1].ret = TestItem(Args(reader[1].tpos)[1], Args(reader[1].tpos)[2])]_vars

\* C31 witness: record 0 was emplaced, and the reader's get() returned it.
C31_Witness ==
    /\ writer = [pc |-> "idle", first |-> 0, last |-> 0, how |-> "emplace"]
    /\ pushed = 1
    /\ reader[1].pc = "idle"
    /\ reader[1].read_pos_ = 0
    /\ reader[1].ret = TestItem(Args(0)[1], Args(0)[2])

\* What holds of a buffer of capacity 1: first = last in the position word,
\* the writer's size() is 0, no size() of a reader has returned or would
\* return anything but 0, and no get() has returned a record.
CapacityOneUseless ==
    /\ first(header.positions) = last(header.positions)
    /\ ring_buffer_size(header.positions) = 0
    /\ ring_buffer_empty(header.positions)
    /\ \A r \in Readers :
          /\ reader[r].sz = 0
          /\ reader[r].ret = NoValue
          /\ reader[r].pc \notin {"copy0", "copy1", "recheck"}
          /\ reader[r].pc # "none" => SizeValue(reader[r]) = 0

LoadStep(r) ==
    /\ writer' = writer
    /\ reader[r].pc \in {"idle", "spin", "recheck", "tryagain", "tryrecheck"}
    /\ \/ ReaderSize(r)
       \/ GetBegin(r)
       \/ GetSpin(r)
       \/ GetRecheck(r)
       \/ TryGetBegin(r)
       \/ TryGetRecheck(r)

\* A step of reader r that copies half of a slot.
CopyStep(r) ==
    /\ writer' = writer
    /\ reader[r].pc \in {"copy0", "copy1", "trycopy0", "trycopy1"}
    /\ reader'[r] # reader[r]

\* C33: a step that loads the position word w sets read_pos to
\* first_of(w) + underflow_fixup if first_of(w) > read_pos and leaves it
\* unchanged otherwise; a copy leaves read_pos alone, begins only after such
\* a load and is followed by another one.
C33_AdjustmentRule ==
    [][\A r \in Readers :
          /\ LoadStep(r) =>
                reader'[r].read_pos_ =
                    IF first(header.positions) > reader[r].read_pos_
                    THEN Unsigned(first(header.positions) + reader[r].underflow_fixup_)
                    ELSE reader[r].read_pos_
          /\ CopyStep(r) =>
                /\ reader'[r].read_pos_ = reader[r].read_pos_
                /\ reader'[r].pc \in {"copy1", "recheck", "trycopy1", "tryrecheck"}
          /\ (writer' = writer /\ reader'[r].pc \in {"copy0", "trycopy0"}
                              /\ reader[r].pc # reader'[r].pc) =>
                LoadStep(r)]_vars

\* C33 witness: the writer of a buffer of capacity 2 has moved first to 3; a
\* reader attached at 0 with underflow_fixup 1 was adjusted after its copy
\* and stands at 4.
C33_Witness ==
    /\ capacity_ = 2
    /\ first(header.positions) = 3
    /\ reader[1].underflow_fixup_ = 1
    /\ reader[1].start = 0
    /\ reader[1].adjusted
    /\ reader[1].pc = "copy0"
    /\ first(reader[1].pos) = 3
    /\ reader[1].read_pos_ = 4

\* The position word a push that starts from pack(f, l) is to store.
PushFrameWord(f, l) ==
    make_positions(IF (l + 1) - f > capacity_ - 1 THEN l + 1 - (capacity_ - 1) ELSE f,
                   l + 1)

\* C34: a step of a push that starts from position word (f, l) changes no
\* slot but slot l & (capacity - 1) and no field of the header but positions;
\* the step that stores the position word stores pack(f', l + 1), with
\* f' = l + 1 - (capacity - 1) if (l + 1) - f > capacity - 1 and f' = f
\* otherwise, and finds the record written in that slot.
C34_PushFrame ==
    [][writer' # writer =>
          LET f == first(header.positions)
              l == last(header.positions)
              slot == SlotOf(l, capacity_ - 1)
          IN  /\ capacity_' = capacity_
              /\ DOMAIN data_' = DOMAIN data_
              /\ \A i \in DOMAIN data_ : i # slot => data_'[i] = data_[i]
              /\ [header' EXCEPT !.positions = 0] = [header EXCEPT !.positions = 0]
              /\ header'.positions # header.positions =>
                    /\ header'.positions = PushFrameWord(f, l)
                    /\ data_' = data_
                    /\ data_[slot] = Rec(pushed)
              /\ writer.pc = "store" => header'.positions # header.positions]_vars

\* C34 witness: a push into the full buffer of capacity 2, from (1, 2), has
\* stored (2, 3) and left record 2 in slot 0 beside record 1 in slot 1.
C34_Witness ==
    /\ capacity_ = 2
    /\ writer = [pc |-> "idle", first |-> 1, last |-> 2, how |-> "push"]
    /\ header.positions = make_positions(2, 3)
    /\ data_ = [i \in 0 .. 1 |-> IF i = 0 THEN Rec(2) ELSE Rec(1)]

\* C35: in every reachable state, for every position p with
\* first <= p < last of the published position word, slot p & (capacity - 1)
\* holds exactly the p-th pushed record; a push that is still writing its
\* record has not stored its position word.
C35_PublicationOrder ==
    LET f == first(header.positions)
        l == last(header.positions)
    IN  /\ \A p \in f .. l - 1 : data_[SlotOf(p, capacity_ - 1)] = Rec(p)
        /\ writer.pc \in {"init0", "init1", "store"} =>
              /\ l = writer.last
              /\ pushed = l

\* C35 witness: the buffer of capacity 2 publishes (1, 2) with record 1 in
\* slot 1, while the third push has written half of record 2 into slot 0.
C35_Witness ==
    /\ capacity_ = 2
    /\ writer.pc = "init1"
    /\ header.positions = make_positions(1, 2)
    /\ data_[1] = Rec(1)
    /\ data_[0] = <<2, 0>>

\* C36: for all counters f and l, the word packed from them unpacks to f and
\* to l and carries f in its low half and l in its high half; every word
\* unpacks to two counters that pack to the same word.
C36_EncodingRoundTrip ==
    /\ writer.pc = "packed" =>
          /\ first(header.positions) = writer.first
          /\ last(header.positions) = writer.last
          /\ header.positions = writer.last * (2 ^ CounterBits) + writer.first
    /\ writer.pc = "unpacked" =>
          /\ writer.first \in 0 .. Modulus - 1
          /\ writer.last \in 0 .. Modulus - 1
          /\ make_positions(writer.first, writer.last) = header.positions

\* C36 witness: a word with both halves non-zero and different, given in the
\* header from the start, has been unpacked.
C36_Witness ==
    /\ writer.pc = "unpacked"
    /\ header.positions = 2 * Modulus - 1
    /\ writer.first = Modulus - 1
    /\ writer.last = 1

\* C37: the step that completes a construction stores version 1, the record
\* size, the data offset, the capacity and the position word pack(0, 0) in
\* the header; from then on no step of a push, of an emplace or of a reader
\* changes version, data_size, data_offset or capacity.
C37_HeaderImmutable ==
    [][/\ (rbw.state = "create" /\ rbw'.state = "live") =>
             header' = [version |-> 1, data_size |-> ItemSize, data_offset |-> DataOffset,
                        capacity |-> rbw.requested, positions |-> make_positions(0, 0)]
       /\ rbw.state = "live" =>
             /\ header'.version = header.version
             /\ header'.data_size = header.data_size
             /\ header'.data_offset = header.data_offset
             /\ header'.capacity = header.capacity
             /\ header'.capacity = capacity_']_vars

\* C37 witness: three records have been pushed or emplaced into a buffer
\* constructed with capacity 2, a reader has got one of them, and the header
\* still shows what the construction stored.
C37_Witness ==
    /\ rbw.state = "live"
    /\ pushed = 3
    /\ reader[1].got # <<>>
    /\ first(header.positions) = 2
    /\ [header EXCEPT !.positions = 0] =
           ring_buffer_header(ring_buffer_version, ItemSize, DataOffset, 2)

\* C38: a step that loads position word w and adjusts read_pos leaves
\* first_of(w) <= read_pos <= last_of(w), whatever the capacity and the
\* underflow_fixup of the reader.
C38_AdjustedInRange ==
    [][\A r \in Readers :
          (LoadStep(r) /\ first(header.positions) > reader[r].read_pos_) =>
              /\ first(header.positions) <= reader'[r].read_pos_
              /\ reader'[r].read_pos_ <= last(header.positions)]_vars

\* C39: when size() or get() of a reader returns, first_of(w) <= read_pos
\* for the position word w the call loaded last; the value size() returns is
\* at most last_of(w) - first_of(w), which is at most capacity - 1, and never
\* larger than the writer's size() for that word.
C39_ReaderBounds ==
    [][\A r \in Readers :
          LET w == header.positions IN
          /\ (writer' = writer /\ reader[r].pc = "idle" /\ ReaderSize(r)) =>
                /\ first(w) <= reader'[r].read_pos_
                /\ reader'[r].sz <= last(w) - first(w)
                /\ last(w) - first(w) <= capacity_ - 1
                /\ reader'[r].sz <= ring_buffer_size(w)
          /\ (writer' = writer /\ GetReturns(r)) =>
                first(w) <= reader'[r].read_pos_]_vars

\* C39 witness: a reader lapped in a buffer of capacity 4 has called size(),
\* was moved to first = 1 and was told of capacity - 1 = 3 records.
C39_Witness ==
    /\ capacity_ = 4
    /\ header.positions = make_positions(1, 4)
    /\ reader[1].pc = "idle"
    /\ reader[1].adjusted
    /\ reader[1].read_pos_ = 1
    /\ reader[1].sz = 3

====
